---- MODULE Spec2Model ----
(***************************************************************************)
(* SpatialVCS backend: the probe ingest loop (websocket_probe), the REST   *)
(* ingest (receive_frame), the scan diff (spatial_diff), reset, and the    *)
(* SpatialMemory index (services/spatial_memory.py).                       *)
(*                                                                         *)
(* Units.  Coordinates are integers counting quarter metres, so that the   *)
(* default diff threshold 0.5 is the integer 2 and round(z * 2.0) meets    *)
(* its half-way cases.  Timestamps are whole seconds.  Strings that the    *)
(* code only passes around (labels, names, paths) are TLA+ strings.        *)
(***************************************************************************)
EXTENDS Integers, Sequences, FiniteSets, TLC

VARIABLES
    spatial_scans,        \* main.py:48   scan_id -> scan record
    frame_count,          \* main.py:219  per probe connection
    gemini,               \* main.py:217  per probe: a describer client exists
    probe_open,           \* the probe's receive loop is still running
    task,                 \* per probe: where its coroutine is suspended
    YOLO_FRAME_STRIDE,    \* main.py:59   configuration, fixed at startup
    GEMINI_FRAME_STRIDE,  \* main.py:60
    MAX_GEMINI_CROPS,     \* main.py:61
    memory,               \* SpatialMemory: _initialized, index, metadata
    disk,                 \* the index file and its .json sidecar
    encoder_ok,           \* sentence_transformers can be imported
    faiss_ok,             \* faiss can be imported
    last                  \* what the last handler answered / broadcast

vars == <<spatial_scans, frame_count, gemini, probe_open, task, YOLO_FRAME_STRIDE,
          GEMINI_FRAME_STRIDE, MAX_GEMINI_CROPS, memory, disk, encoder_ok,
          faiss_ok, last>>

config == <<YOLO_FRAME_STRIDE, GEMINI_FRAME_STRIDE, MAX_GEMINI_CROPS,
            encoder_ok, faiss_ok>>

-----------------------------------------------------------------------------
(* Bounds of the model *)

MaxFrames == 3       \* frames one probe connection sends
MaxStride == 3       \* largest stride the configuration is drawn from
MaxHistory == 4      \* detections one scan's history may hold
MaxVectors == 4      \* vectors the similarity index may hold
MaxScanFrames == 4   \* frames a scan may count when the REST ingest adds one

(* Program constants *)

GEMINI_LABEL_TTL_SEC == 20
FALLBACK_KEY_BUCKET_PX == 96

-----------------------------------------------------------------------------
(* Values *)

Probes == {"p1", "p2"}
ScanIds == {"s1", "s2"}

\* Detector labels, listed in the order Python's sorted() gives them.
LabelOrder == <<"bottle", "chair", "cup">>
Labels == {LabelOrder[i] : i \in 1..Len(LabelOrder)}
Rank(label) == CHOOSE i \in 1..Len(LabelOrder) : LabelOrder[i] = label

\* dict.get() on a key that is not there
Absent == "<absent>"

Truthy(s) == s # Absent /\ s # ""

Pos(x, y, z) == [x |-> x, y |-> y, z |-> z]

\* The empty dict / the empty label cache.
EmptyDict == [k \in {} |-> k]

Put(d, k, v) == [j \in (DOMAIN d) \cup {k} |-> IF j = k THEN v ELSE d[j]]
Pop(d, k) == [j \in (DOMAIN d) \ {k} |-> d[j]]

Min(a, b) == IF a <= b THEN a ELSE b
Max(a, b) == IF a >= b THEN a ELSE b

\* Python's int(a / 2) for an integer a: true division, then truncation
\* towards zero.
TruncHalf(a) == IF a >= 0 THEN a \div 2 ELSE -((-a) \div 2)

\* Python's round(z * 2.0) for z = zq / 4: round half to even of zq / 2.
RoundHalfEven(zq) ==
    LET f == zq \div 2
    IN  IF zq % 2 = 0 THEN f
        ELSE IF f % 2 = 0 THEN f ELSE f + 1

-----------------------------------------------------------------------------
(* _ensure_scan, main.py:66 *)

NewScan(scan_id, source) ==
    [scan_id |-> scan_id, status |-> "scanning", source |-> source,
     frames |-> 0, object_count |-> 0, objects |-> <<>>, detections |-> <<>>,
     gemini_label_cache |-> EmptyDict, last_frame_path |-> Absent,
     updated_at |-> Absent]

\* Mutant of _ensure_scan: a record that is there is set back to scanning.
_ensure_scan_reopen(scans, scan_id, source) ==
    IF scan_id \in DOMAIN scans
    THEN [scans EXCEPT ![scan_id].status = "scanning"]
    ELSE Put(scans, scan_id, NewScan(scan_id, source))

\* Mutant of _ensure_scan: a record that is there takes the caller's source.
_ensure_scan_resource(scans, scan_id, source) ==
    IF scan_id \in DOMAIN scans
    THEN [scans EXCEPT ![scan_id].source = source]
    ELSE Put(scans, scan_id, NewScan(scan_id, source))

\* The store after _ensure_scan(scan_id, source).
_ensure_scan(scans, scan_id, source) ==
    IF scan_id \in DOMAIN scans THEN scans
    ELSE Put(scans, scan_id, NewScan(scan_id, source))

\* Mutant of _object_key_from_detection: the cell is that of the box's
\* top-left corner instead of its centre.
_object_key_from_detection_corner(det) ==
    IF det.track_id > -1 THEN <<det.label, det.track_id>>
    ELSE <<det.label, "cell", det.bbox[1] \div FALLBACK_KEY_BUCKET_PX,
           det.bbox[2] \div FALLBACK_KEY_BUCKET_PX,
           RoundHalfEven(det.position_3d.z)>>

(* _object_key_from_detection, main.py:83.  The key string is the "_"-join *)
(* of the parts of the tuple.                                              *)
_object_key_from_detection(det) ==
    IF det.track_id > -1 THEN <<det.label, det.track_id>>
    ELSE LET bbox == det.bbox
             cx == TruncHalf(bbox[1] + bbox[3])
             cy == TruncHalf(bbox[2] + bbox[4])
             cell_x == cx \div FALLBACK_KEY_BUCKET_PX
             cell_y == cy \div FALLBACK_KEY_BUCKET_PX
             z_bucket == RoundHalfEven(det.position_3d.z)
         IN  <<det.label, "cell", cell_x, cell_y, z_bucket>>

\* Mutant of _record_detections: the history is replaced by the frame's
\* detections instead of being extended.
_record_detections_fresh(history, detections, timestamp) ==
    [i \in 1..Len(detections) |->
        [label |-> detections[i].label,
         yolo_label |-> detections[i].label,
         gemini_name |-> IF detections[i].gemini_name = Absent THEN ""
                         ELSE detections[i].gemini_name,
         confidence |-> detections[i].confidence,
         position_3d |-> detections[i].position_3d,
         timestamp |-> timestamp,
         frame_path |-> detections[i].frame_path]]

(* _record_detections, main.py:152: the detection history after the call *)
RECURSIVE _record_detections(_, _, _)
_record_detections(history, detections, timestamp) ==
    IF detections = <<>> THEN history
    ELSE LET det == Head(detections)
         IN  _record_detections(
                 Append(history,
                        [label |-> det.label,
                         yolo_label |-> det.label,
                         gemini_name |-> IF det.gemini_name = Absent THEN ""
                                         ELSE det.gemini_name,
                         confidence |-> det.confidence,
                         position_3d |-> det.position_3d,
                         timestamp |-> timestamp,
                         frame_path |-> det.frame_path]),
                 Tail(detections), timestamp)

-----------------------------------------------------------------------------
(* SpatialMemory, services/spatial_memory.py *)

\* encoder.encode([text]) followed by faiss.normalize_L2: a unit vector that
\* depends on the words of the text only.  Texts are tuples of words; the
\* encoder is a fixed table on the first word.
WordVector(w) ==
    CASE w = "mug"   -> <<1, 0>>
      [] w = "flask" -> <<0, 1>>
      [] w = "sofa"  -> <<-1, 0>>
      [] OTHER       -> <<0, -1>>

encode(text) == WordVector(text[1])

Dot(u, v) == u[1] * v[1] + u[2] * v[2]

NoIndex == [ok |-> FALSE, vectors |-> <<>>]
NoFile == [exists |-> FALSE, content |-> <<>>]
File(content) == [exists |-> TRUE, content |-> content]

\* SpatialMemory.__init__
NewMemory == [initialized |-> FALSE, index |-> NoIndex, metadata |-> <<>>]

\* SpatialMemory._ensure_init: the object after the call, given the files.
_ensure_init(m, files, faiss) ==
    IF m.initialized THEN m
    ELSE LET m1 == [m EXCEPT !.initialized = TRUE]
         IN  IF ~faiss THEN m1
             ELSE IF files.index.exists
                  THEN [m1 EXCEPT
                          !.index = [ok |-> TRUE, vectors |-> files.index.content],
                          !.metadata = IF files.meta.exists
                                       THEN files.meta.content ELSE @]
                  ELSE [m1 EXCEPT !.index = [ok |-> TRUE, vectors |-> <<>>]]

\* Mutant of add_observation: the availability test of line 62 is left out.
add_observation_unguarded(m, files, encoder, faiss, text, meta, raises) ==
    LET m1 == _ensure_init(m, files, faiss)
    IN  IF raises THEN m1
        ELSE [m1 EXCEPT !.index.vectors = Append(@, encode(text)),
                        !.metadata = Append(@, [text |-> text,
                                                scan_id |-> meta.scan_id,
                                                frame_path |-> meta.frame_path,
                                                timestamp |-> meta.timestamp])]

\* SpatialMemory.add_observation.  `raises` is encoder.encode or index.add
\* throwing: both come before the first assignment.
add_observation(m, files, encoder, faiss, text, meta, raises) ==
    LET m1 == _ensure_init(m, files, faiss)
    IN  IF ~encoder \/ ~faiss \/ ~m1.index.ok THEN m1
        ELSE IF raises THEN m1
        ELSE [m1 EXCEPT !.index.vectors = Append(@, encode(text)),
                        !.metadata = Append(@, [text |-> text,
                                                scan_id |-> meta.scan_id,
                                                frame_path |-> meta.frame_path,
                                                timestamp |-> meta.timestamp])]

\* index.search(query_vec, search_k): positions by descending inner product,
\* earlier position first among equals, at most search_k of them.
RECURSIVE TopK(_, _, _, _)
TopK(vectors, q, left, search_k) ==
    IF search_k <= 0 \/ left = {} THEN <<>>
    ELSE LET best == CHOOSE i \in left :
                        \A j \in left :
                            \/ Dot(vectors[i], q) > Dot(vectors[j], q)
                            \/ Dot(vectors[i], q) = Dot(vectors[j], q) /\ i <= j
         IN  <<best>> \o TopK(vectors, q, left \ {best}, search_k - 1)

\* The filter loop of SpatialMemory.search, lines 86-101.
RECURSIVE FilterHits(_, _, _, _, _, _)
FilterHits(m, q, hits, k, scan_id, results) ==
    IF hits = <<>> THEN results
    ELSE LET idx == Head(hits)
         IN  IF idx > Len(m.metadata)
             THEN FilterHits(m, q, Tail(hits), k, scan_id, results)
             ELSE LET item == m.metadata[idx]
                  IN  IF Truthy(scan_id) /\ item.scan_id # scan_id
                      THEN FilterHits(m, q, Tail(hits), k, scan_id, results)
                      ELSE LET r == Append(results,
                                           [score |-> Dot(m.index.vectors[idx], q),
                                            description |-> item.text,
                                            metadata |-> item])
                           IN  IF Len(r) >= k THEN r
                               ELSE FilterHits(m, q, Tail(hits), k, scan_id, r)

\* SpatialMemory.search: [memory, results]
search(m, files, encoder, faiss, query, k, scan_id) ==
    LET m1 == _ensure_init(m, files, faiss)
    IN  IF ~encoder \/ ~faiss \/ ~m1.index.ok
        THEN [memory |-> m1, results |-> <<>>]
        ELSE LET q == encode(query)
                 search_k == IF Truthy(scan_id) THEN k * 10 ELSE k
                 hits == TopK(m1.index.vectors, q,
                              1..Len(m1.index.vectors), search_k)
             IN  [memory |-> m1,
                  results |-> FilterHits(m1, q, hits, k, scan_id, <<>>)]

\* SpatialMemory.save: the files after the call.
save(m, files, faiss) ==
    IF ~faiss \/ ~m.index.ok THEN files
    ELSE [index |-> File(m.index.vectors), meta |-> File(m.metadata)]

-----------------------------------------------------------------------------
(* Step 4 of websocket_probe, main.py:293-322: the description fan-out *)

\* zip(crops, detections) filtered on `c is not None`: the positions kept
RECURSIVE CropPositions(_, _)
CropPositions(crops, i) ==
    IF i > Len(crops) THEN <<>>
    ELSE (IF crops[i] THEN <<i>> ELSE <<>>) \o CropPositions(crops, i + 1)

\* Mutant of DescribedPositions: every pair is kept, the cap is ignored.
DescribedPositions_uncapped(crops, detections, cap) ==
    CropPositions(SubSeq(crops, 1, Min(Len(crops), Len(detections))), 1)

\* zip() stops at the shorter list; then pairs[:MAX_GEMINI_CROPS]
DescribedPositions(crops, detections, cap) ==
    LET all == CropPositions(SubSeq(crops, 1, Min(Len(crops), Len(detections))), 1)
    IN  SubSeq(all, 1, Min(Len(all), cap))

\* the gemini_obj built from one (desc, det) result, lines 308-316
GeminiObject(desc, det) ==
    [name |-> IF desc.name = Absent THEN det.label ELSE desc.name,
     position |-> det.position_3d,
     details |-> IF desc.details = Absent THEN "" ELSE desc.details,
     bbox |-> det.bbox,
     track_id |-> det.track_id,
     yolo_label |-> det.label,
     confidence |-> det.confidence]

\* [detections, gemini_objects] after step 4.  descs[j] is what describe_crop
\* returns for the j-th pair; describe_raises is any of the calls throwing.
Describe(detections, run_gemini, crops, descs, describe_raises, cap) ==
    IF ~run_gemini \/ detections = <<>> \/ describe_raises
    THEN [detections |-> detections, gemini_objects |-> <<>>]
    ELSE LET at == DescribedPositions(crops, detections, cap)
             JOf(i) == CHOOSE j \in 1..Len(at) : at[j] = i
             described == {at[j] : j \in 1..Len(at)}
         IN  [detections |->
                 [i \in 1..Len(detections) |->
                    IF i \in described
                    THEN LET obj == GeminiObject(descs[JOf(i)], detections[i])
                         IN  [detections[i] EXCEPT !.gemini_name = obj.name,
                                                   !.gemini_details = obj.details]
                    ELSE detections[i]],
              gemini_objects |->
                 [j \in 1..Len(at) |-> GeminiObject(descs[j], detections[at[j]])]]

-----------------------------------------------------------------------------
(* Step 6 of websocket_probe, main.py:364-414: label fusion and broadcast *)

\* Mutants of CacheFresh: the boundary excluded; no expiry at all.
CacheFresh_strict(cached, timestamp) ==
    timestamp - cached.updated_at < GEMINI_LABEL_TTL_SEC

CacheFresh_forever(cached, timestamp) == TRUE

\* `now - updated_at <= TTL`, line 383
CacheFresh(cached, timestamp) ==
    timestamp - cached.updated_at <= GEMINI_LABEL_TTL_SEC

\* Mutant of CacheWrite: an entry that is there is kept.
CacheWrite_keep(cache, obj_key, d, timestamp) ==
    IF Truthy(d.gemini_name) /\ obj_key \notin DOMAIN cache
    THEN Put(cache, obj_key,
             [name |-> d.gemini_name,
              details |-> IF d.gemini_details = Absent THEN ""
                          ELSE d.gemini_details,
              updated_at |-> timestamp])
    ELSE cache

\* `if d.get("gemini_name"): gemini_label_cache[obj_key] = {...}`, 375-380
CacheWrite(cache, obj_key, d, timestamp) ==
    IF Truthy(d.gemini_name)
    THEN Put(cache, obj_key,
             [name |-> d.gemini_name,
              details |-> IF d.gemini_details = Absent THEN ""
                          ELSE d.gemini_details,
              updated_at |-> timestamp])
    ELSE cache

\* Mutant of FuseOne: the read drops every expired entry of the cache, not
\* only the one under the detection's key.
FuseOne_sweep(cache0, d, timestamp) ==
    LET obj_key == _object_key_from_detection(d)
        cache1 == CacheWrite(cache0, obj_key, d, timestamp)
        has == obj_key \in DOMAIN cache1
        hit == has /\ CacheFresh(cache1[obj_key], timestamp)
        kept == {k \in DOMAIN cache1 : CacheFresh(cache1[k], timestamp)}
    IN  [cache |-> [k \in kept |-> cache1[k]],
         object |-> [label |-> IF hit THEN cache1[obj_key].name
                               ELSE IF d.gemini_name = Absent THEN d.label
                               ELSE d.gemini_name,
                     yolo_label |-> d.label,
                     details |-> IF hit THEN cache1[obj_key].details
                                 ELSE IF d.gemini_details = Absent THEN ""
                                 ELSE d.gemini_details,
                     confidence |-> d.confidence,
                     track_id |-> d.track_id,
                     bbox |-> d.bbox,
                     position |-> d.position_3d]]

\* One pass of the loop body for detection d: [cache, object]
FuseOne(cache0, d, timestamp) ==
    LET obj_key == _object_key_from_detection(d)
        cache1 == CacheWrite(cache0, obj_key, d, timestamp)
        has == obj_key \in DOMAIN cache1
        hit == has /\ CacheFresh(cache1[obj_key], timestamp)
        display_label == IF hit THEN cache1[obj_key].name
                         ELSE IF d.gemini_name = Absent THEN d.label
                         ELSE d.gemini_name
        display_details == IF hit THEN cache1[obj_key].details
                           ELSE IF d.gemini_details = Absent THEN ""
                           ELSE d.gemini_details
        cache2 == IF ~hit /\ has THEN Pop(cache1, obj_key) ELSE cache1
    IN  [cache |-> cache2,
         object |-> [label |-> display_label,
                     yolo_label |-> d.label,
                     details |-> display_details,
                     confidence |-> d.confidence,
                     track_id |-> d.track_id,
                     bbox |-> d.bbox,
                     position |-> d.position_3d]]

\* The whole loop: [cache, objects]
RECURSIVE Fuse(_, _, _, _)
Fuse(cache, detections, timestamp, objects) ==
    IF detections = <<>> THEN [cache |-> cache, objects |-> objects]
    ELSE LET one == FuseOne(cache, Head(detections), timestamp)
         IN  Fuse(one.cache, Tail(detections), timestamp,
                  Append(objects, one.object))

-----------------------------------------------------------------------------
(* What a handler answers.  Every handler fills the fields it produces. *)

Blank ==
    [op |-> "none", status |-> "ok", probe |-> "", scan_id |-> "",
     frame_number |-> 0, ran_yolo |-> FALSE, timestamp |-> 0,
     detections |-> <<>>, objects |-> <<>>, gemini_objects |-> <<>>,
     cache_before |-> EmptyDict, events |-> <<>>, change_count |-> 0,
     results |-> <<>>, before |-> "", after |-> "", threshold |-> 0]

\* The locals of a probe's coroutine while it is suspended in a frame:
\* idle is the receive_json of line 223.
IdleTask ==
    [stage |-> "idle", scan_id |-> "", timestamp |-> 0, frame_number |-> 0,
     detections |-> <<>>, gemini_objects |-> <<>>, frame_path |-> "",
     crops |-> <<>>, calls |-> <<>>, descs |-> <<>>, add_fail |-> {}]

CacheOf(scans, scan_id) ==
    IF scan_id \in DOMAIN scans THEN scans[scan_id].gemini_label_cache
    ELSE EmptyDict

-----------------------------------------------------------------------------
(* Step 5 of websocket_probe, main.py:324-361 *)

\* The loop over gemini_objects, lines 336-359: [memory, objects].
\* add_fail holds the positions whose add_observation throws (caught, 351).
RECURSIVE StoreObjects(_, _, _, _, _, _, _, _, _)
StoreObjects(m, objects, gemini_objects, j, scan_id, frame_path, timestamp, add_fail, env) ==
    IF j > Len(gemini_objects) THEN [memory |-> m, objects |-> objects]
    ELSE LET obj == gemini_objects[j]
             meta == [scan_id |-> scan_id, frame_path |-> frame_path,
                      timestamp |-> timestamp]
             text_to_index == <<obj.name, obj.details>>
             m1 == add_observation(m, env.files, env.encoder, env.faiss,
                                   text_to_index, meta, j \in add_fail)
         IN  StoreObjects(m1,
                          Append(objects,
                                 [name |-> obj.name, position |-> obj.position,
                                  details |-> obj.details,
                                  timestamp |-> timestamp,
                                  frame_path |-> frame_path]),
                          gemini_objects, j + 1, scan_id, frame_path, timestamp,
                          add_fail, env)

\* Mutant of RecordFrame: the frame path is taken from the detections only.
RecordFrame_nopath(scan_record, detections, frame_path, timestamp) ==
    [scan_record EXCEPT
        !.frames = @ + 1,
        !.updated_at = timestamp,
        !.last_frame_path = IF detections # <<>>
                            THEN detections[1].frame_path ELSE @,
        !.detections = _record_detections(@, detections, timestamp)]

\* The scan record after lines 326-334 (frames, updated_at, last_frame_path,
\* detection history).
RecordFrame(scan_record, detections, frame_path, timestamp) ==
    [scan_record EXCEPT
        !.frames = @ + 1,
        !.updated_at = timestamp,
        !.last_frame_path = IF frame_path # "" THEN frame_path
                            ELSE IF detections # <<>>
                                 THEN detections[1].frame_path ELSE @,
        !.detections = _record_detections(@, detections, timestamp)]

(***************************************************************************)
(* websocket_probe, one "frame" message, main.py:245-434.                  *)
(*   data: scan_id, timestamp, image_ok (base64 decodes), api_key          *)
(*   out:  what the collaborators do on this frame: raises (process_frame  *)
(*         throws), detections, frame_path, crops (crop is not None),      *)
(*         descs, describe_raises, add_fail                                *)
(***************************************************************************)
ProbeFrame(p, data, out) ==
    /\ probe_open[p]
    /\ frame_count[p] < MaxFrames
    /\ LET n == frame_count[p] + 1
           client == gemini[p] \/ data.api_key
           scan_id == data.scan_id
           timestamp == data.timestamp
           should_run_yolo == (n % YOLO_FRAME_STRIDE = 1)
           detections0 == IF should_run_yolo THEN out.detections ELSE <<>>
           run_gemini == client /\ (n % GEMINI_FRAME_STRIDE = 1)
           step4 == Describe(detections0, run_gemini, out.crops, out.descs,
                             out.describe_raises, MAX_GEMINI_CROPS)
           detections == step4.detections
           gemini_objects == step4.gemini_objects
           scans1 == _ensure_scan(spatial_scans, scan_id, p)
           rec1 == RecordFrame(scans1[scan_id], detections, out.frame_path,
                               timestamp)
           meta_path == IF out.frame_path # "" THEN out.frame_path
                        ELSE IF detections # <<>> THEN detections[1].frame_path
                        ELSE ""
           stored == StoreObjects(memory, rec1.objects, gemini_objects, 1,
                                  scan_id, meta_path, timestamp, out.add_fail,
                                  [files |-> disk, encoder |-> encoder_ok,
                                   faiss |-> faiss_ok])
           fused == Fuse(rec1.gemini_label_cache, detections, timestamp, <<>>)
           rec2 == [rec1 EXCEPT
                      !.objects = stored.objects,
                      !.object_count = @ + Len(gemini_objects),
                      !.gemini_label_cache = fused.cache]
       IN  /\ frame_count' = [frame_count EXCEPT ![p] = n]
           /\ gemini' = [gemini EXCEPT ![p] = client]
           /\ IF ~data.image_ok
              THEN /\ last' = [Blank EXCEPT !.op = "frame", !.status = "error",
                                            !.probe = p, !.scan_id = scan_id,
                                            !.frame_number = n,
                                            !.timestamp = timestamp]
                   /\ UNCHANGED <<spatial_scans, memory, probe_open>>
              ELSE IF out.raises
              THEN /\ probe_open' = [probe_open EXCEPT ![p] = FALSE]
                   /\ last' = [Blank EXCEPT !.op = "frame", !.status = "closed",
                                            !.probe = p, !.scan_id = scan_id,
                                            !.frame_number = n,
                                            !.ran_yolo = should_run_yolo,
                                            !.timestamp = timestamp]
                   /\ UNCHANGED <<spatial_scans, memory>>
              ELSE /\ Len(rec2.detections) <= MaxHistory
                   /\ Len(stored.memory.index.vectors) <= MaxVectors
                   /\ spatial_scans' = [scans1 EXCEPT ![scan_id] = rec2]
                   /\ memory' = stored.memory
                   /\ last' = [Blank EXCEPT
                                 !.op = "frame", !.status = "ack",
                                 !.probe = p, !.scan_id = scan_id,
                                 !.frame_number = n,
                                 !.ran_yolo = should_run_yolo,
                                 !.timestamp = timestamp,
                                 !.detections = detections,
                                 !.objects = fused.objects,
                                 !.gemini_objects = gemini_objects,
                                 !.cache_before = CacheOf(spatial_scans, scan_id)]
                   /\ UNCHANGED probe_open
    /\ UNCHANGED <<config, disk, task>>

(* websocket_probe, a "stop_scan" message, main.py:233-243 *)
ProbeStop(p, scan_id) ==
    /\ probe_open[p]
    /\ spatial_scans' = IF scan_id \in DOMAIN spatial_scans
                        THEN [spatial_scans EXCEPT ![scan_id].status = "completed"]
                        ELSE spatial_scans
    /\ last' = [Blank EXCEPT !.op = "stop_scan", !.probe = p,
                             !.scan_id = scan_id]
    /\ UNCHANGED <<frame_count, gemini, probe_open, task, config, memory, disk>>

(* websocket_probe, an "auth" message, main.py:226-231 *)
ProbeAuth(p, msg_key) ==
    /\ probe_open[p]
    /\ gemini' = [gemini EXCEPT ![p] = @ \/ msg_key]
    /\ last' = [Blank EXCEPT !.op = "auth", !.probe = p,
                             !.status = IF msg_key THEN "auth_ack" ELSE "ok"]
    /\ UNCHANGED <<spatial_scans, frame_count, probe_open, task, config, memory, disk>>

-----------------------------------------------------------------------------
(* websocket_probe as the event loop runs it.  All handlers are coroutines *)
(* of one asyncio loop: a coroutine gives up the loop only at an await,    *)
(* and what lies between two awaits runs without any other handler in      *)
(* between.  The description calls run in worker threads                   *)
(* (asyncio.to_thread, line 303) and are joined by asyncio.gather (306).   *)

\* Mutant of AwaitLines: one more await, inside the record operation.
AwaitLines_inRecord == {223, 265, 306, 335, 416, 430}

\* The lines of the frame branch of websocket_probe that await.
AwaitLines == {223, 265, 306, 416, 430}

\* Steps 5 and 6, the record operation: the scan record's counters and
\* history (up to line 334), then its objects, objectCount and label cache.
RecordLines == 324..414

SplitsRecord == AwaitLines \cap RecordLines # {}

\* Lines 325-334: the store with the frame counted and its history appended.
RecordHead(scans, p, t) ==
    LET scans1 == _ensure_scan(scans, t.scan_id, p)
    IN  [scans1 EXCEPT ![t.scan_id] =
            RecordFrame(@, t.detections, t.frame_path, t.timestamp)]

\* Lines 336-414 on a store that RecordHead has left: [scans, memory, objects]
RecordTail(scans, m, t, env) ==
    LET rec1 == scans[t.scan_id]
        meta_path == IF t.frame_path # "" THEN t.frame_path
                     ELSE IF t.detections # <<>>
                          THEN t.detections[1].frame_path ELSE ""
        stored == StoreObjects(m, rec1.objects, t.gemini_objects, 1,
                               t.scan_id, meta_path, t.timestamp, t.add_fail,
                               env)
        fused == Fuse(rec1.gemini_label_cache, t.detections, t.timestamp, <<>>)
    IN  [scans |-> [scans EXCEPT ![t.scan_id] =
                      [rec1 EXCEPT
                         !.objects = stored.objects,
                         !.object_count = @ + Len(t.gemini_objects),
                         !.gemini_label_cache = fused.cache]],
         memory |-> stored.memory,
         objects |-> fused.objects]

\* What the frame of task t has to show at this point.
TaskAnswer(p, t, status) ==
    [Blank EXCEPT !.op = "frame", !.status = status, !.probe = p,
                  !.scan_id = t.scan_id, !.frame_number = t.frame_number,
                  !.timestamp = t.timestamp, !.detections = t.detections,
                  !.gemini_objects = t.gemini_objects]

\* The record operation of probe p for the frame in t, from where t stands
\* to the next await.
DoRecord(p, t) ==
    LET head == IF t.stage = "recording" THEN spatial_scans
                ELSE RecordHead(spatial_scans, p, t)
        tail == RecordTail(head, memory, t,
                           [files |-> disk, encoder |-> encoder_ok,
                            faiss |-> faiss_ok])
    IN  IF t.stage # "recording" /\ SplitsRecord
        THEN /\ Len(head[t.scan_id].detections) <= MaxHistory
             /\ spatial_scans' = head
             /\ memory' = memory
             /\ task' = [task EXCEPT ![p] = [t EXCEPT !.stage = "recording"]]
             /\ last' = TaskAnswer(p, t, "recording")
        ELSE /\ Len(tail.scans[t.scan_id].detections) <= MaxHistory
             /\ Len(tail.memory.index.vectors) <= MaxVectors
             /\ spatial_scans' = tail.scans
             /\ memory' = tail.memory
             /\ task' = [task EXCEPT ![p] = [t EXCEPT !.stage = "sending"]]
             /\ last' = [TaskAnswer(p, t, "recorded") EXCEPT
                           !.objects = tail.objects,
                           !.cache_before = CacheOf(spatial_scans, t.scan_id)]

(* Lines 223-306: a frame message is received, decoded and run through the *)
(* detector; on a described frame the description calls are issued and the *)
(* coroutine waits in gather, otherwise it goes on to the record operation.*)
TaskReceive(p, data, out) ==
    /\ probe_open[p]
    /\ task[p].stage = "idle"
    /\ frame_count[p] < MaxFrames
    /\ LET n == frame_count[p] + 1
           client == gemini[p] \/ data.api_key
           should_run_yolo == (n % YOLO_FRAME_STRIDE = 1)
           detections0 == IF should_run_yolo THEN out.detections ELSE <<>>
           run_gemini == client /\ (n % GEMINI_FRAME_STRIDE = 1)
           t == [IdleTask EXCEPT
                   !.scan_id = data.scan_id, !.timestamp = data.timestamp,
                   !.frame_number = n, !.detections = detections0,
                   !.frame_path = out.frame_path, !.add_fail = out.add_fail]
           pairs == DescribedPositions(out.crops, detections0, MAX_GEMINI_CROPS)
       IN  /\ frame_count' = [frame_count EXCEPT ![p] = n]
           /\ gemini' = [gemini EXCEPT ![p] = client]
           /\ IF ~data.image_ok
              THEN /\ last' = TaskAnswer(p, [t EXCEPT !.detections = <<>>],
                                         "error")
                   /\ UNCHANGED <<spatial_scans, memory, probe_open, task>>
              ELSE IF out.raises
              THEN /\ probe_open' = [probe_open EXCEPT ![p] = FALSE]
                   /\ last' = TaskAnswer(p, [t EXCEPT !.detections = <<>>],
                                         "closed")
                   /\ UNCHANGED <<spatial_scans, memory, task>>
              ELSE IF run_gemini /\ detections0 # <<>>
              THEN /\ task' = [task EXCEPT ![p] =
                                 [t EXCEPT
                                    !.stage = "describing",
                                    !.crops = out.crops,
                                    !.descs = out.descs,
                                    !.calls = [j \in 1..Len(pairs) |-> "running"]]]
                   /\ last' = TaskAnswer(p, t, "describing")
                   /\ UNCHANGED <<spatial_scans, memory, probe_open>>
              ELSE /\ DoRecord(p, t)
                   /\ UNCHANGED probe_open
    /\ UNCHANGED <<config, disk>>

(* gemini.describe_crop, line 303, in its worker thread: the j-th call of  *)
(* probe p's frame returns (ok) or throws.                                 *)
DescribeReturns(p, j, ok) ==
    /\ j \in DOMAIN task[p].calls
    /\ task[p].calls[j] = "running"
    /\ task' = [task EXCEPT ![p].calls[j] = IF ok THEN "done" ELSE "failed"]
    /\ UNCHANGED <<spatial_scans, frame_count, gemini, probe_open, config,
                   memory, disk, last>>

\* asyncio.gather without return_exceptions (line 306): it returns once
\* every call has returned, and raises as soon as one call has thrown.
GatherWakes(calls) ==
    \/ \A j \in DOMAIN calls : calls[j] = "done"
    \/ \E j \in DOMAIN calls : calls[j] = "failed"

(* Lines 306-414: the coroutine of probe p runs again, after gather or     *)
(* after an await inside the record operation, up to the next await.       *)
TaskResume(p) ==
    /\ probe_open[p]
    /\ \/ task[p].stage = "describing" /\ GatherWakes(task[p].calls)
       \/ task[p].stage = "recording"
    /\ LET t0 == task[p]
           failed == \E j \in DOMAIN t0.calls : t0.calls[j] = "failed"
           step4 == Describe(t0.detections, TRUE, t0.crops, t0.descs, failed,
                             MAX_GEMINI_CROPS)
           t == IF t0.stage = "recording" THEN t0
                ELSE [t0 EXCEPT !.detections = step4.detections,
                                !.gemini_objects = step4.gemini_objects]
       IN  DoRecord(p, t)
    /\ UNCHANGED <<frame_count, gemini, probe_open, config, disk>>

(* Lines 416-434: the broadcast and the ack have been sent; the coroutine  *)
(* is back at receive_json.                                                *)
TaskSent(p) ==
    /\ probe_open[p]
    /\ task[p].stage = "sending"
    /\ task' = [task EXCEPT ![p] = IdleTask]
    /\ last' = [last EXCEPT !.op = "frame", !.probe = p, !.status = "ack"]
    /\ UNCHANGED <<spatial_scans, frame_count, gemini, probe_open, config,
                   memory, disk>>

-----------------------------------------------------------------------------
(* Scan diff, main.py:165-186 and 672-727 *)

\* Mutant of _latest_position_by_label: the item appended last is kept.
RECURSIVE _latest_position_by_label_last(_, _)
_latest_position_by_label_last(detections, latest) ==
    IF detections = <<>> THEN latest
    ELSE LET item == Head(detections)
             label == IF item.yolo_label # "" THEN item.yolo_label
                      ELSE item.label
         IN  IF label = ""
             THEN _latest_position_by_label_last(Tail(detections), latest)
             ELSE _latest_position_by_label_last(Tail(detections),
                                                 Put(latest, label, item))

\* _latest_position_by_label: label -> history item.  An item replaces the
\* kept one only on a strictly greater timestamp.
RECURSIVE _latest_position_by_label(_, _)
_latest_position_by_label(detections, latest) ==
    IF detections = <<>> THEN latest
    ELSE LET item == Head(detections)
             label == IF item.yolo_label # "" THEN item.yolo_label
                      ELSE item.label
             keep == \/ label \notin DOMAIN latest
                     \/ item.timestamp > latest[label].timestamp
         IN  IF label = ""
             THEN _latest_position_by_label(Tail(detections), latest)
             ELSE _latest_position_by_label(
                      Tail(detections),
                      IF keep THEN Put(latest, label, item) ELSE latest)

\* The square of _euclidean_distance(a, b), in (quarter metres)^2.
DistanceSquared(a, b) ==
    (a.x - b.x) * (a.x - b.x) + (a.y - b.y) * (a.y - b.y)
        + (a.z - b.z) * (a.z - b.z)

\* Mutant of Exceeds: `dist >= request.threshold`
Exceeds_orEqual(d2, threshold) == threshold <= 0 \/ d2 >= threshold * threshold

\* `dist > request.threshold` for dist = sqrt(d2) >= 0.
Exceeds(d2, threshold) == threshold < 0 \/ d2 > threshold * threshold

\* The integer nearest to sqrt(n), by bisection on lo^2 <= n < hi^2.
RECURSIVE RootBetween(_, _, _)
RootBetween(n, lo, hi) ==
    IF hi - lo <= 1
    THEN IF (2 * lo + 1) * (2 * lo + 1) <= 4 * n THEN lo + 1 ELSE lo
    ELSE LET mid == (lo + hi) \div 2
         IN  IF mid * mid <= n THEN RootBetween(n, mid, hi)
             ELSE RootBetween(n, lo, mid)

\* round(dist, 4) in ten-thousandths of a metre: sqrt(d2) / 4 * 10^4.
RoundedDistance(d2) == RootBetween(d2 * 6250000, 0, 23000)

\* Mutant of Sorted: list(labels), descending here
RECURSIVE Sorted_not(_)
Sorted_not(labels) ==
    IF labels = {} THEN <<>>
    ELSE LET first == CHOOSE l \in labels :
                          \A m \in labels : Rank(l) >= Rank(m)
         IN  <<first>> \o Sorted_not(labels \ {first})

\* sorted(labels)
RECURSIVE Sorted(_)
Sorted(labels) ==
    IF labels = {} THEN <<>>
    ELSE LET first == CHOOSE l \in labels :
                          \A m \in labels : Rank(l) <= Rank(m)
         IN  <<first>> \o Sorted(labels \ {first})

RECURSIVE MoveEvents(_, _, _, _)
MoveEvents(labels, before_latest, after_latest, threshold) ==
    IF labels = <<>> THEN <<>>
    ELSE LET label == Head(labels)
             old_pos == before_latest[label].position_3d
             new_pos == after_latest[label].position_3d
             d2 == DistanceSquared(new_pos, old_pos)
             rest == MoveEvents(Tail(labels), before_latest, after_latest,
                                threshold)
         IN  IF Exceeds(d2, threshold)
             THEN <<[type |-> "MOVE", label |-> label,
                     distance |-> RoundedDistance(d2),
                     from |-> old_pos, to |-> new_pos]>> \o rest
             ELSE rest

NoPos == [x |-> Absent, y |-> Absent, z |-> Absent]

AddedEvents(labels, after_latest) ==
    [i \in 1..Len(labels) |->
        [type |-> "ADDED", label |-> labels[i], distance |-> -1,
         from |-> NoPos, to |-> after_latest[labels[i]].position_3d]]

RemovedEvents(labels, before_latest) ==
    [i \in 1..Len(labels) |->
        [type |-> "REMOVED", label |-> labels[i], distance |-> -1,
         from |-> before_latest[labels[i]].position_3d, to |-> NoPos]]

\* The event list of spatial_diff for two scan records, lines 678-717.
DiffEvents(before_scan, after_scan, threshold) ==
    LET before_latest == _latest_position_by_label(before_scan.detections,
                                                   EmptyDict)
        after_latest == _latest_position_by_label(after_scan.detections,
                                                  EmptyDict)
        before_labels == DOMAIN before_latest
        after_labels == DOMAIN after_latest
        common_labels == before_labels \cap after_labels
    IN  MoveEvents(Sorted(common_labels), before_latest, after_latest,
                   threshold)
        \o AddedEvents(Sorted(after_labels \ before_labels), after_latest)
        \o RemovedEvents(Sorted(before_labels \ after_labels), before_latest)

\* Mutant of Diff: the scans are fetched with _ensure_scan
Diff_create(scan_id_before, scan_id_after, threshold) ==
    /\ spatial_scans' = _ensure_scan(_ensure_scan(spatial_scans, scan_id_before,
                                                  "diff"),
                                     scan_id_after, "diff")
    /\ LET events == DiffEvents(spatial_scans'[scan_id_before],
                                spatial_scans'[scan_id_after], threshold)
       IN  last' = [Blank EXCEPT !.op = "diff", !.before = scan_id_before,
                                 !.after = scan_id_after,
                                 !.threshold = threshold, !.events = events,
                                 !.change_count = Len(events)]
    /\ UNCHANGED <<frame_count, gemini, probe_open, task, config, memory, disk>>

(* spatial_diff, main.py:672 *)
Diff(scan_id_before, scan_id_after, threshold) ==
    /\ LET request == [Blank EXCEPT !.op = "diff", !.before = scan_id_before,
                                    !.after = scan_id_after,
                                    !.threshold = threshold]
       IN  IF \/ scan_id_before \notin DOMAIN spatial_scans
              \/ scan_id_after \notin DOMAIN spatial_scans
           THEN last' = [request EXCEPT !.status = "404"]
           ELSE LET events == DiffEvents(spatial_scans[scan_id_before],
                                         spatial_scans[scan_id_after],
                                         threshold)
                IN  last' = [request EXCEPT !.events = events,
                                            !.change_count = Len(events)]
    /\ UNCHANGED <<spatial_scans, frame_count, gemini, probe_open, task, config,
                   memory, disk>>

-----------------------------------------------------------------------------
(* Reset, query, REST ingest *)

\* The methods class SpatialMemory defines, spatial_memory.py:31-115.
SpatialMemoryMethods ==
    {"__init__", "_ensure_init", "add_observation", "search", "save",
     "is_ready"}

(* reset_spatial_data, main.py:729.  credentials: an X-API-Key header or   *)
(* the GEMINI_API_KEY variable is there (get_gemini_client, main.py:196).  *)
Reset(credentials) ==
    /\ IF ~credentials
       THEN /\ last' = [Blank EXCEPT !.op = "reset", !.status = "401"]
            /\ UNCHANGED <<spatial_scans, memory>>
       ELSE IF "reset_database" \notin SpatialMemoryMethods
       THEN \* line 738 raises AttributeError; lines 741-749 are not reached
            /\ last' = [Blank EXCEPT !.op = "reset", !.status = "500"]
            /\ UNCHANGED <<spatial_scans, memory>>
       ELSE /\ spatial_scans' = EmptyDict
            /\ memory' = [memory EXCEPT !.index.vectors = <<>>,
                                        !.metadata = <<>>]
            /\ last' = [Blank EXCEPT !.op = "reset"]
    /\ UNCHANGED <<frame_count, gemini, probe_open, task, config, disk>>

(* list_scans, main.py:751 *)
list_scans(scans) == DOMAIN scans

(* spatial_query, main.py:637 *)
Query(credentials, query, top_k, scan_id) ==
    /\ IF ~credentials
       THEN /\ last' = [Blank EXCEPT !.op = "query", !.status = "401"]
            /\ UNCHANGED memory
       ELSE LET found == search(memory, disk, encoder_ok, faiss_ok, query,
                                top_k, scan_id)
            IN  /\ memory' = found.memory
                /\ last' = [Blank EXCEPT !.op = "query", !.scan_id = scan_id,
                                         !.results = found.results]
    /\ UNCHANGED <<spatial_scans, frame_count, gemini, probe_open, task, config, disk>>

-----------------------------------------------------------------------------
(* receive_frame, main.py:588-635 *)

\* The loop of lines 615-631: [memory, objects, raised].  add_fail holds the
\* positions whose add_observation throws; nothing catches it here.
RECURSIVE RestStoreObjects(_, _, _, _, _, _, _, _, _)
RestStoreObjects(m, objects, gemini_objects, j, scan_id, frame_path, timestamp, add_fail, env) ==
    IF j > Len(gemini_objects)
    THEN [memory |-> m, objects |-> objects, raised |-> FALSE]
    ELSE LET obj == gemini_objects[j]
             meta == [scan_id |-> scan_id, frame_path |-> frame_path,
                      timestamp |-> timestamp]
             text_to_index == <<obj.name, obj.position, obj.details>>
             m1 == add_observation(m, env.files, env.encoder, env.faiss,
                                   text_to_index, meta, j \in add_fail)
             reaches == env.encoder /\ env.faiss /\ m1.index.ok
         IN  IF j \in add_fail /\ reaches
             THEN [memory |-> m1, objects |-> objects, raised |-> TRUE]
             ELSE RestStoreObjects(m1,
                                   Append(objects,
                                          [name |-> obj.name,
                                           position |-> obj.position,
                                           details |-> obj.details,
                                           timestamp |-> timestamp,
                                           frame_path |-> frame_path]),
                                   gemini_objects, j + 1, scan_id, frame_path,
                                   timestamp, add_fail, env)

(*   out: raises (process_frame throws), detections, describe_raises,      *)
(*        objects (describe_for_spatial()["objects"]), add_fail            *)
RestFrame(credentials, scan_id, timestamp, out) ==
    /\ scan_id \in DOMAIN spatial_scans =>
           spatial_scans[scan_id].frames < MaxScanFrames
    /\ IF ~credentials
       THEN /\ last' = [Blank EXCEPT !.op = "rest_frame", !.status = "401",
                                     !.scan_id = scan_id]
            /\ UNCHANGED <<spatial_scans, memory>>
       ELSE IF out.raises
       THEN /\ last' = [Blank EXCEPT !.op = "rest_frame", !.status = "500",
                                     !.scan_id = scan_id]
            /\ UNCHANGED <<spatial_scans, memory>>
       ELSE LET detections == out.detections
                scans1 == _ensure_scan(spatial_scans, scan_id, "rest")
                rec0 == scans1[scan_id]
                rec1 == [rec0 EXCEPT
                           !.frames = @ + 1,
                           !.updated_at = timestamp,
                           !.last_frame_path =
                               IF detections # <<>>
                               THEN detections[1].frame_path ELSE @,
                           !.detections =
                               _record_detections(@, detections, timestamp)]
                stored == RestStoreObjects(
                              memory, rec1.objects, out.objects, 1, scan_id,
                              IF detections # <<>>
                              THEN detections[1].frame_path ELSE "",
                              timestamp, out.add_fail,
                              [files |-> disk, encoder |-> encoder_ok,
                               faiss |-> faiss_ok])
                answer == [Blank EXCEPT !.op = "rest_frame",
                                        !.scan_id = scan_id,
                                        !.timestamp = timestamp,
                                        !.ran_yolo = TRUE,
                                        !.detections = detections,
                                        !.cache_before =
                                            CacheOf(spatial_scans, scan_id)]
            IN  /\ Len(rec1.detections) <= MaxHistory
                /\ IF detections = <<>>
                   THEN /\ spatial_scans' = [scans1 EXCEPT ![scan_id] = rec1]
                        /\ memory' = memory
                        /\ last' = answer
                   ELSE IF out.describe_raises
                   THEN /\ spatial_scans' = [scans1 EXCEPT ![scan_id] = rec1]
                        /\ memory' = memory
                        /\ last' = [answer EXCEPT !.status = "500"]
                   ELSE /\ Len(stored.memory.index.vectors) <= MaxVectors
                        /\ memory' = stored.memory
                        /\ spatial_scans' =
                              [scans1 EXCEPT ![scan_id] =
                                 [rec1 EXCEPT
                                    !.objects = stored.objects,
                                    !.object_count =
                                        IF stored.raised THEN @
                                        ELSE @ + Len(out.objects)]]
                        /\ last' = [answer EXCEPT
                                      !.status = IF stored.raised THEN "500"
                                                 ELSE "ok",
                                      !.gemini_objects = out.objects]
    /\ UNCHANGED <<frame_count, gemini, probe_open, task, config, disk>>

-----------------------------------------------------------------------------
(* Persistence and the process's life *)

(* SpatialMemory.save, spatial_memory.py:104 *)
Save ==
    /\ disk' = save(memory, disk, faiss_ok)
    /\ last' = [Blank EXCEPT !.op = "save"]
    /\ UNCHANGED <<spatial_scans, frame_count, gemini, probe_open, task, config,
                   memory>>

(* SpatialMemory.save cut short: the process dies after write_index        *)
(* (line 109) and before the sidecar is opened (line 110).  The index file *)
(* is the new one, the sidecar the old one; the process starts again.      *)
SaveKilled(env_key) ==
    /\ faiss_ok /\ memory.index.ok
    /\ disk' = [disk EXCEPT !.index = File(memory.index.vectors)]
    /\ spatial_scans' = EmptyDict
    /\ memory' = NewMemory
    /\ frame_count' = [p \in Probes |-> 0]
    /\ gemini' = [p \in Probes |-> env_key]
    /\ probe_open' = [p \in Probes |-> TRUE]
    /\ task' = [p \in Probes |-> IdleTask]
    /\ last' = [Blank EXCEPT !.op = "restart"]
    /\ UNCHANGED config

(* SpatialMemory.is_ready, spatial_memory.py:113 *)
IsReady ==
    /\ memory' = _ensure_init(memory, disk, faiss_ok)
    /\ last' = [Blank EXCEPT !.op = "is_ready",
                   !.status = IF encoder_ok /\ faiss_ok /\ memory'.index.ok
                              THEN "ready" ELSE "not_ready"]
    /\ UNCHANGED <<spatial_scans, frame_count, gemini, probe_open, task, config, disk>>

(* The process is started again: module-level state is rebuilt             *)
(* (main.py:46-48), the files stay.                                        *)
Restart(env_key) ==
    /\ spatial_scans' = EmptyDict
    /\ memory' = NewMemory
    /\ frame_count' = [p \in Probes |-> 0]
    /\ gemini' = [p \in Probes |-> env_key]
    /\ probe_open' = [p \in Probes |-> TRUE]
    /\ task' = [p \in Probes |-> IdleTask]
    /\ last' = [Blank EXCEPT !.op = "restart"]
    /\ UNCHANGED <<config, disk>>

-----------------------------------------------------------------------------
(* Start of the process *)

\* _int_env(name, default, minimum), main.py:50: what it returns for the
\* integer `raw` in the environment.
_int_env(raw, minimum) == Max(minimum, raw)

InitState(yolo, gem, crops, enc, fai, files, env_key) ==
    /\ spatial_scans = EmptyDict
    /\ frame_count = [p \in Probes |-> 0]
    /\ gemini = [p \in Probes |-> env_key]
    /\ probe_open = [p \in Probes |-> TRUE]
    /\ task = [p \in Probes |-> IdleTask]
    /\ YOLO_FRAME_STRIDE = _int_env(yolo, 1)
    /\ GEMINI_FRAME_STRIDE = _int_env(gem, 1)
    /\ MAX_GEMINI_CROPS = _int_env(crops, 1)
    /\ encoder_ok = enc
    /\ faiss_ok = fai
    /\ memory = NewMemory
    /\ disk = files
    /\ last = Blank

NoFiles == [index |-> NoFile, meta |-> NoFile]

-----------------------------------------------------------------------------
(* Inputs *)

\* One detection as process_frame returns it (no semantic fields yet).
Detection(label, track_id, bbox, position_3d, frame_path) ==
    [label |-> label, track_id |-> track_id, bbox |-> bbox,
     position_3d |-> position_3d, confidence |-> 9, frame_path |-> frame_path,
     gemini_name |-> Absent, gemini_details |-> Absent]

Message(scan_id, timestamp, image_ok, api_key) ==
    [scan_id |-> scan_id, timestamp |-> timestamp, image_ok |-> image_ok,
     api_key |-> api_key]

Outcome(raises, detections, frame_path, crops, descs, describe_raises, add_fail) ==
    [raises |-> raises, detections |-> detections, frame_path |-> frame_path,
     crops |-> crops, descs |-> descs, describe_raises |-> describe_raises,
     add_fail |-> add_fail]

Desc(name, details) == [name |-> name, details |-> details]

\* What receive_frame's collaborators do on one request.
RestOutcome(raises, detections, describe_raises, objects, add_fail) ==
    [raises |-> raises, detections |-> detections,
     describe_raises |-> describe_raises, objects |-> objects,
     add_fail |-> add_fail]

\* One entry of describe_for_spatial()["objects"].
RestObject(name, position, details) ==
    [name |-> name, position |-> position, details |-> details]

\* What a frame with these detections can meet: each crop there or None,
\* one description per crop that is there; no collaborator throws.
FrameOutcomes(detections, frame_path, descs) ==
    UNION {{Outcome(FALSE, detections, frame_path, crops, ds, FALSE, {}) :
               ds \in [1..Cardinality({i \in DOMAIN crops : crops[i]}) -> descs]} :
           crops \in [1..Len(detections) -> BOOLEAN]}

\* With run_detection=False process_frame only stores the frame: on a frame
\* the sampling skips, the outcome is the frame path alone.
OutcomesAt(p, outcomes, frame_path) ==
    IF (frame_count[p] + 1) % YOLO_FRAME_STRIDE = 1 THEN outcomes
    ELSE {Outcome(FALSE, <<>>, frame_path, <<>>, <<>>, FALSE, {})}

\* Timestamps on both sides of the label TTL.
Times == {0, GEMINI_LABEL_TTL_SEC, GEMINI_LABEL_TTL_SEC + 1}

-----------------------------------------------------------------------------
(* SpecCache: one probe feeding one scan; the label cache of that scan.    *)
(* Two untracked bottles whose box centres share a 96 px cell (one key)    *)
(* and a tracked bottle (another key).                                     *)

BottleA == Detection("bottle", -1, <<0, 0, 100, 100>>, Pos(0, 0, 6), "f")
BottleB == Detection("bottle", -1, <<10, 10, 120, 120>>, Pos(0, 0, 6), "f")
Bottle1 == Detection("bottle", 1, <<0, 0, 100, 100>>, Pos(0, 0, 6), "f")

CacheDetections == {<<>>, <<BottleA>>, <<BottleA, BottleB>>, <<Bottle1, BottleA>>}
CacheDescs == {Desc("mug", "blue"), Desc("flask", "steel"), Desc("", "plain")}

CacheOutcomes == UNION {FrameOutcomes(dets, "f", CacheDescs) : dets \in CacheDetections}

InitCache ==
    \E gem \in {2, 3}, crops \in {1, 2} :
        InitState(2, gem, crops, TRUE, TRUE, NoFiles, TRUE)

NextCache ==
    \E t \in Times, out \in OutcomesAt("p1", CacheOutcomes, "f") :
        ProbeFrame("p1", Message("s1", t, TRUE, FALSE), out)

SpecCache == InitCache /\ [][NextCache]_vars

-----------------------------------------------------------------------------
(* The last acknowledged probe frame, seen from outside: the detections as *)
(* step 4 left them, the objects broadcast, the cache before and after.    *)

FrameAck == last.op = "frame" /\ last.status = "ack"
CacheAfter == spatial_scans[last.scan_id].gemini_label_cache
KeyAt(i) == _object_key_from_detection(last.detections[i])
FreshAt(i) == Truthy(last.detections[i].gemini_name)
EntryOf(i) ==
    [name |-> last.detections[i].gemini_name,
     details |-> IF last.detections[i].gemini_details = Absent THEN ""
                 ELSE last.detections[i].gemini_details,
     updated_at |-> last.timestamp]

\* Detections of the frame with the key of i that carry a fresh name
WritersBefore(i) == {j \in 1..(i - 1) : KeyAt(j) = KeyAt(i) /\ FreshAt(j)}
WritersAfter(i) ==
    {j \in (i + 1)..Len(last.detections) : KeyAt(j) = KeyAt(i) /\ FreshAt(j)}
LastOf(S) == CHOOSE j \in S : \A m \in S : m <= j

\* The entry under the key of detection i when the loop reaches i: what the
\* last earlier writer of this frame put there, else what the frame found.
HasEntry(i) == WritersBefore(i) # {} \/ KeyAt(i) \in DOMAIN last.cache_before
EntryFor(i) ==
    IF WritersBefore(i) # {} THEN EntryOf(LastOf(WritersBefore(i)))
    ELSE last.cache_before[KeyAt(i)]

\* The detection's own semantic name if it has one, else the detector label
FallbackLabel(i) ==
    IF last.detections[i].gemini_name # Absent
    THEN last.detections[i].gemini_name ELSE last.detections[i].label

C4_AsStated ==
    FrameAck =>
        \A i \in 1..Len(last.detections) :
            FreshAt(i) =>
                /\ last.objects[i].label = last.detections[i].gemini_name
                /\ KeyAt(i) \in DOMAIN CacheAfter
                /\ CacheAfter[KeyAt(i)] = EntryOf(i)

\* C4 amended: every detection with a fresh name is shown with it, and after
\* the frame the entry under its key is that of the last detection of the
\* frame with this key that carries a fresh name.
C4_LastWriterWins ==
    FrameAck =>
        \A i \in 1..Len(last.detections) :
            FreshAt(i) =>
                /\ last.objects[i].label = last.detections[i].gemini_name
                /\ KeyAt(i) \in DOMAIN CacheAfter
                /\ CacheAfter[KeyAt(i)] =
                      EntryOf(LastOf(WritersAfter(i) \cup {i}))

\* a fresh name written over an entry with another name
C4_Witness ==
    /\ FrameAck
    /\ \E i \in 1..Len(last.detections) :
          /\ FreshAt(i)
          /\ KeyAt(i) \in DOMAIN last.cache_before
          /\ last.cache_before[KeyAt(i)].name # last.detections[i].gemini_name
          /\ last.cache_before[KeyAt(i)].updated_at # last.timestamp
          /\ CacheAfter[KeyAt(i)] = EntryOf(i)

-----------------------------------------------------------------------------
(* SpecSampling: two probes under every stride up to MaxStride; frames     *)
(* whose payload decodes or not, a detector that answers or throws.        *)

Chair0 == Detection("chair", -1, <<0, 0, 100, 100>>, Pos(0, 0, 0), "f")

SamplingOutcomes ==
    {Outcome(raises, dets, "f", <<>>, <<>>, FALSE, {}) :
        raises \in BOOLEAN, dets \in {<<>>, <<Chair0>>}}

InitSampling ==
    \E yolo \in 1..MaxStride, gem \in 1..MaxStride :
        InitState(yolo, gem, 1, TRUE, TRUE, NoFiles, FALSE)

NextSampling ==
    \/ \E p \in Probes, image_ok \in BOOLEAN, out \in SamplingOutcomes :
           ProbeFrame(p, Message("s1", 0, image_ok, FALSE), out)
    \/ \E p \in Probes : ProbeStop(p, "s1")

SpecSampling == InitSampling /\ [][NextSampling]_vars

\* C5: the detector runs on frame n of a probe exactly when
\* n mod detectionStride = 1.
C5_AsStated ==
    last.op = "frame" =>
        (last.ran_yolo <=> last.frame_number % YOLO_FRAME_STRIDE = 1)

-----------------------------------------------------------------------------
(* SpecDiff: probe p1 fills scan s1 and probe p2 fills scan s2, neither   *)
(* with a describer; diffs between any two of s1, s2 and s3, which is      *)
(* never written.                                                          *)

At(label, track_id, x) ==
    Detection(label, track_id, <<0, 0, 100, 100>>, Pos(x, 0, 0), "f")

DiffDetections1 ==
    {<<>>,
     <<At("chair", -1, 0)>>,
     <<At("cup", -1, 0), At("bottle", -1, 0)>>,
     <<At("cup", -1, 4), At("bottle", -1, 4)>>,
     <<At("chair", 1, 0), At("chair", 2, 4)>>}

DiffDetections2 ==
    {<<>>,
     <<At("chair", -1, 0)>>,
     <<At("cup", -1, 4), At("chair", -1, 0)>>}

DiffOutcomes(detections) ==
    {Outcome(FALSE, dets, "f", <<>>, <<>>, FALSE, {}) : dets \in detections}

DiffTimes == {0, GEMINI_LABEL_TTL_SEC + 1}
Thresholds == {-1, 2, 4}

InitDiff == InitState(2, 3, 3, TRUE, TRUE, NoFiles, FALSE)

NextDiff ==
    \/ \E t \in DiffTimes :
           \E out \in OutcomesAt("p1", DiffOutcomes(DiffDetections1), "f") :
               ProbeFrame("p1", Message("s1", t, TRUE, FALSE), out)
    \/ \E out \in OutcomesAt("p2", DiffOutcomes(DiffDetections2), "f") :
           ProbeFrame("p2", Message("s2", 0, TRUE, FALSE), out)
    \/ \E b \in ScanIds \cup {"s3"}, a \in ScanIds \cup {"s3"},
          threshold \in Thresholds :
           Diff(b, a, threshold)

SpecDiff == InitDiff /\ [][NextDiff]_vars


(* The last diff answered, and the scans it read (a diff changes no scan   *)
(* and every other handler overwrites `last`).                             *)

DiffDone == last.op = "diff" /\ last.status = "ok"
LatestOf(scan_id) ==
    _latest_position_by_label(spatial_scans[scan_id].detections, EmptyDict)
EventsFor(label) ==
    {i \in 1..Len(last.events) : last.events[i].label = label}
EventsOfType(type) ==
    {i \in 1..Len(last.events) : last.events[i].type = type}

\* sqrt(d2) > threshold, both sides compared by their squares
Farther(p, q, threshold) ==
    \/ threshold < 0
    \/ (p.x - q.x) * (p.x - q.x) + (p.y - q.y) * (p.y - q.y)
          + (p.z - q.z) * (p.z - q.z) > threshold * threshold

\* C6: the events are one MOVE per label in both latest-position maps that
\* lies farther apart than the threshold, one ADDED per label only in the
\* after map, one REMOVED per label only in the before map, nothing else;
\* change_count is their number.
C6_DiffEvents ==
    DiffDone =>
        LET before_latest == LatestOf(last.before)
            after_latest == LatestOf(last.after)
            B == DOMAIN before_latest
            A == DOMAIN after_latest
            Only(label, type) ==
                /\ Cardinality(EventsFor(label)) = 1
                /\ \A i \in EventsFor(label) : last.events[i].type = type
        IN  /\ \A label \in Labels :
                  IF label \in B \cap A
                  THEN IF Farther(after_latest[label].position_3d,
                                  before_latest[label].position_3d,
                                  last.threshold)
                       THEN Only(label, "MOVE")
                       ELSE EventsFor(label) = {}
                  ELSE IF label \in A THEN Only(label, "ADDED")
                  ELSE IF label \in B THEN Only(label, "REMOVED")
                  ELSE EventsFor(label) = {}
            /\ \A i \in 1..Len(last.events) : last.events[i].label \in Labels
            /\ last.change_count = Len(last.events)

\* a diff that answers a MOVE, an ADDED and a REMOVED event
C6_Witness ==
    /\ DiffDone
    /\ EventsOfType("MOVE") # {}
    /\ EventsOfType("ADDED") # {}
    /\ EventsOfType("REMOVED") # {}
    /\ last.threshold > 0

\* C7: MOVE events come before ADDED events, ADDED before REMOVED, and the
\* events of one category are in ascending order of label.
TypeRank(type) ==
    CASE type = "MOVE" -> 1 [] type = "ADDED" -> 2 [] type = "REMOVED" -> 3

C7_DiffOrder ==
    DiffDone =>
        \A i, j \in 1..Len(last.events) :
            i < j =>
                /\ TypeRank(last.events[i].type) <= TypeRank(last.events[j].type)
                /\ last.events[i].type = last.events[j].type
                      => Rank(last.events[i].label) < Rank(last.events[j].label)

\* two events of one category whose labels were recorded in descending
\* order, followed by an event of a later category
C7_Witness ==
    /\ DiffDone
    /\ \E i, j, k \in 1..Len(last.events) :
          /\ i < j /\ j < k
          /\ last.events[i].type = last.events[j].type
          /\ last.events[j].type # last.events[k].type
    /\ \E sid \in {last.before, last.after} :
          \E m, n \in 1..Len(spatial_scans[sid].detections) :
              /\ m < n
              /\ Rank(spatial_scans[sid].detections[m].label)
                    > Rank(spatial_scans[sid].detections[n].label)

\* C8: in every scan, every label of the detection history has one
\* representative in the latest-position map, a detection of that label from
\* the history whose timestamp no detection of the label exceeds.
C8_LatestPerLabel ==
    \A sid \in DOMAIN spatial_scans :
        LET history == spatial_scans[sid].detections
            latest == LatestOf(sid)
        IN  /\ DOMAIN latest = {history[i].yolo_label : i \in 1..Len(history)}
            /\ \A i \in 1..Len(history) :
                  /\ latest[history[i].yolo_label].timestamp
                        >= history[i].timestamp
                  /\ latest[history[i].yolo_label].yolo_label
                        = history[i].yolo_label
            /\ \A label \in DOMAIN latest :
                  \E i \in 1..Len(history) : history[i] = latest[label]

\* a history whose newest detection of a label was appended before an older
\* one, and a label with two instances of different positions
C8_Witness ==
    \E sid \in DOMAIN spatial_scans :
        LET history == spatial_scans[sid].detections
        IN  /\ \E i, j \in 1..Len(history) :
                  /\ i < j
                  /\ history[i].yolo_label = history[j].yolo_label
                  /\ history[i].timestamp > history[j].timestamp
                  /\ LatestOf(sid)[history[i].yolo_label] = history[i]
            /\ \E i, j \in 1..Len(history) :
                  /\ i # j
                  /\ history[i].yolo_label = history[j].yolo_label
                  /\ history[i].timestamp = history[j].timestamp
                  /\ history[i].position_3d # history[j].position_3d

\* C9: a diff naming a scan id that is not in the store answers not-found
\* with no events, a diff of two scans with empty histories answers an empty
\* event list, and neither changes the store.
C9_DiffUnknownScan ==
    [][last'.op = "diff" =>
          /\ spatial_scans' = spatial_scans
          /\ IF \/ last'.before \notin DOMAIN spatial_scans
                \/ last'.after \notin DOMAIN spatial_scans
             THEN /\ last'.status = "404"
                  /\ last'.events = <<>>
                  /\ last'.change_count = 0
             ELSE /\ last'.status = "ok"
                  /\ (/\ spatial_scans[last'.before].detections = <<>>
                      /\ spatial_scans[last'.after].detections = <<>>)
                        => last'.events = <<>>]_vars

\* not-found although one of the two scans is there
C9_Witness ==
    /\ last.op = "diff" /\ last.status = "404"
    /\ \/ last.before \in DOMAIN spatial_scans
       \/ last.after \in DOMAIN spatial_scans
    /\ {last.before, last.after} \cap DOMAIN spatial_scans # {last.before, last.after}


-----------------------------------------------------------------------------
(* SpecMemory: one probe with a describer and the REST ingest feed scan s1 *)
(* and the index; queries, reset, save and restarts.  The process starts   *)
(* on any of the four file states: none, both, one without the other.      *)

SavedText == <<"mug", "blue">>
SavedItem == [text |-> SavedText, scan_id |-> "s1", frame_path |-> "f",
              timestamp |-> 0]

DiskStates ==
    {NoFiles,
     [index |-> File(<<encode(SavedText)>>), meta |-> File(<<SavedItem>>)],
     [index |-> File(<<encode(SavedText)>>), meta |-> NoFile],
     [index |-> NoFile, meta |-> File(<<SavedItem>>)]}

MemoryOutcomes ==
    {Outcome(FALSE, dets, "f", <<TRUE>>, <<Desc("flask", "steel")>>, FALSE,
             add_fail) :
        dets \in {<<>>, <<BottleA>>}, add_fail \in {{}, {1}}}

Queries == {<<"mug">>, <<"flask">>}

InitMemory ==
    \E enc \in BOOLEAN, fai \in BOOLEAN, files \in DiskStates :
        InitState(2, 2, 3, enc, fai, files, TRUE)

NextMemory ==
    \/ \E out \in OutcomesAt("p1", MemoryOutcomes, "f") :
           ProbeFrame("p1", Message("s1", 0, TRUE, FALSE), out)
    \/ \E scan_id \in {"", "s1"} : Query(TRUE, <<"mug">>, 3, scan_id)
    \/ \E credentials \in BOOLEAN : Reset(credentials)
    \/ Save
    \/ SaveKilled(TRUE)
    \/ Restart(TRUE)

SpecMemory == InitMemory /\ [][NextMemory]_vars

\* C1: once a reset made with valid credentials has returned or failed, the
\* scan list is empty and every search answers the empty sequence.
C1_AsStated ==
    (last.op = "reset" /\ last.status # "401") =>
        /\ list_scans(spatial_scans) = {}
        /\ \A query \in Queries, scan_id \in {"", "s1"} :
              search(memory, disk, encoder_ok, faiss_ok, query, 3,
                     scan_id).results = <<>>

\* C10: the index holds as many vectors as the metadata list has entries,
\* and vector i is the embedding of the text of entry i.
C10_AsStated ==
    /\ Len(memory.index.vectors) = Len(memory.metadata)
    /\ \A i \in 1..Len(memory.index.vectors) :
          memory.index.vectors[i] = encode(memory.metadata[i].text)

-----------------------------------------------------------------------------
(* SpecSearch: the process starts on the files an earlier run saved and    *)
(* answers queries.  The saved observations are `pre` of scan s2 about a   *)
(* mug, then `own` of scan s1 about a flask, then `post` of scan s2 about  *)
(* a sofa, so that the rank of the s1 observations against a query is      *)
(* anywhere from first to beyond the k * 10 hits the filtered search asks  *)
(* the index for.                                                          *)

MaxSaved == 21       \* observations in the saved index

SavedOf(scan_id, word) ==
    [text |-> <<word, "x">>, scan_id |-> scan_id, frame_path |-> "f",
     timestamp |-> 0]

SavedItems(pre, own, post) ==
    [i \in 1..(pre + own + post) |->
        IF i <= pre THEN SavedOf("s2", "mug")
        ELSE IF i <= pre + own THEN SavedOf("s1", "flask")
        ELSE SavedOf("s2", "sofa")]

FilesOf(items) ==
    [index |-> File([i \in 1..Len(items) |-> encode(items[i].text)]),
     meta |-> File(items)]

TopKs == 1..3

InitSearch ==
    \E pre \in 0..MaxSaved, own \in 0..2, post \in 0..1 :
        /\ pre + own + post <= MaxSaved
        /\ InitState(2, 3, 3, TRUE, TRUE, FilesOf(SavedItems(pre, own, post)),
                     TRUE)

NextSearch ==
    \E query \in Queries, top_k \in TopKs, scan_id \in {"", "s1", "s2"} :
        Query(TRUE, query, top_k, scan_id)

SpecSearch == InitSearch /\ [][NextSearch]_vars

Descending(results) ==
    \A i \in 1..(Len(results) - 1) : results[i].score >= results[i + 1].score

Owned(scan_id) ==
    {i \in 1..Len(memory.metadata) : memory.metadata[i].scan_id = scan_id}

\* C11: a search with k and no scan filter answers at most k results in
\* descending similarity; a search filtered by a scan that owns M < k of
\* the observations answers exactly those M.
C11_AsStated ==
    last.op = "query" =>
        \A query \in Queries, k \in TopKs :
            /\ LET r == search(memory, disk, encoder_ok, faiss_ok, query, k,
                               "").results
               IN  Len(r) <= k /\ Descending(r)
            /\ \A scan_id \in ScanIds :
                  LET r == search(memory, disk, encoder_ok, faiss_ok, query,
                                  k, scan_id).results
                  IN  Cardinality(Owned(scan_id)) < k =>
                         /\ Len(r) = Cardinality(Owned(scan_id))
                         /\ \A i \in 1..Len(r) : r[i].metadata.scan_id = scan_id

-----------------------------------------------------------------------------
(* Startup load, checked on SpecMemory: the first call that reaches        *)
(* _ensure_init on each of the four file states.                           *)

\* C12: when the index is first initialised, both files are loaded if both
\* exist; if either is absent the index starts with zero vectors and zero
\* metadata entries.
C12_AsStated ==
    [][(/\ faiss_ok
        /\ ~memory.initialized /\ memory'.initialized
        /\ last'.op = "query")
       => IF disk.index.exists /\ disk.meta.exists
          THEN /\ memory'.index.vectors = disk.index.content
               /\ memory'.metadata = disk.meta.content
          ELSE /\ memory'.index.vectors = <<>>
               /\ memory'.metadata = <<>>]_vars

-----------------------------------------------------------------------------
(* SpecDegraded: the encoder and the similarity backend are each there or  *)
(* not; one probe with a describer and the REST ingest feed scan s1, and   *)
(* the index is queried and asked whether it is ready.                     *)

DegradedRestOutcomes ==
    {RestOutcome(FALSE, dets, FALSE, <<RestObject("flask", Pos(0, 0, 6), "steel")>>,
                 add_fail) :
        dets \in {<<>>, <<BottleA>>}, add_fail \in {{}, {1}}}

InitDegraded ==
    \E enc \in BOOLEAN, fai \in BOOLEAN, files \in DiskStates :
        InitState(2, 2, 3, enc, fai, files, TRUE)

NextDegraded ==
    \/ \E out \in OutcomesAt("p1", MemoryOutcomes, "f") :
           ProbeFrame("p1", Message("s1", 0, TRUE, FALSE), out)
    \/ \E out \in DegradedRestOutcomes : RestFrame(TRUE, "s1", 0, out)
    \/ \E scan_id \in {"", "s1"} : Query(TRUE, <<"mug">>, 3, scan_id)
    \/ IsReady

SpecDegraded == InitDegraded /\ [][NextDegraded]_vars

Degraded == ~encoder_ok \/ ~faiss_ok

\* The index as the process sees it: what memory holds once the lazy first
\* load of _ensure_init has run.
Loaded == _ensure_init(memory, disk, faiss_ok)

SameIndex(m1, m2) ==
    /\ m1.index.vectors = m2.index.vectors
    /\ m1.metadata = m2.metadata

FramesOf(scans, scan_id) ==
    IF scan_id \in DOMAIN scans THEN scans[scan_id].frames ELSE 0

HistoryOf(scans, scan_id) ==
    IF scan_id \in DOMAIN scans THEN scans[scan_id].detections ELSE <<>>

\* C13: while the encoder or the similarity backend is unavailable,
\* is_ready answers false, a search answers the empty sequence, an ingested
\* frame appends nothing to the index or the metadata list (they stay what
\* the startup load read) and meets no error from the add, and the frame
\* still bumps the scan's frame counter and records its detections.
C13_DegradedMode ==
    [][Degraded =>
         /\ last'.op = "is_ready" => last'.status = "not_ready"
         /\ last'.op = "query" => last'.results = <<>>
         /\ last'.op \in {"frame", "rest_frame"} =>
               /\ SameIndex(memory', memory) \/ SameIndex(memory', Loaded)
               /\ last'.status \in {"ack", "ok"}
               /\ FramesOf(spatial_scans', last'.scan_id)
                     = FramesOf(spatial_scans, last'.scan_id) + 1
               /\ Len(HistoryOf(spatial_scans', last'.scan_id))
                     = Len(HistoryOf(spatial_scans, last'.scan_id))
                          + Len(last'.detections)]_vars

\* a frame that brought a described object to the add while the encoder or
\* the backend was missing, on files an earlier run had saved
C13_Witness ==
    /\ Degraded
    /\ disk.index.exists /\ disk.meta.exists
    /\ last.op \in {"frame", "rest_frame"}
    /\ last.gemini_objects # <<>>
    /\ last.detections # <<>>
    /\ "s1" \in DOMAIN spatial_scans
    /\ spatial_scans["s1"].frames >= 2
    /\ spatial_scans["s1"].objects # <<>>

-----------------------------------------------------------------------------
(* SpecIngest: probe p1 (with a describer) and the REST ingest both write  *)
(* scan s1; the description and the index add each work or throw; probe    *)
(* p2 sends stop signals for s1 and for s2 (which nothing writes); resets, *)
(* diffs and queries in between.                                           *)

\* The description and the add both work, the description throws, or the
\* add of one object throws.
IngestFailures == {<<FALSE, {}>>, <<TRUE, {}>>, <<FALSE, {1}>>}

IngestOutcomes ==
    {Outcome(FALSE, <<BottleA>>, "f", <<TRUE>>, <<Desc("flask", "steel")>>,
             f[1], f[2]) : f \in IngestFailures}

IngestRestOutcomes ==
    {RestOutcome(FALSE, dets, f[1],
                 <<RestObject("flask", Pos(0, 0, 6), "steel"),
                   RestObject("mug", Pos(0, 0, 6), "blue")>>,
                 IF f[2] = {} THEN {} ELSE {2}) :
        dets \in {<<>>, <<BottleA>>}, f \in IngestFailures}

InitIngest == InitState(2, 2, 3, TRUE, TRUE, NoFiles, TRUE)

NextIngest ==
    \/ \E out \in OutcomesAt("p1", IngestOutcomes, "f") :
           ProbeFrame("p1", Message("s1", 0, TRUE, FALSE), out)
    \/ \E out \in IngestRestOutcomes : RestFrame(TRUE, "s1", 0, out)
    \/ \E scan_id \in ScanIds : ProbeStop("p2", scan_id)
    \/ Reset(TRUE)
    \/ \E a \in ScanIds : Diff("s1", a, 2)
    \/ Query(TRUE, <<"mug">>, 3, "s1")

SpecIngest == InitIngest /\ [][NextIngest]_vars

ObjectsOf(scans, scan_id) ==
    IF scan_id \in DOMAIN scans THEN scans[scan_id].objects ELSE <<>>

CountOf(scans, scan_id) ==
    IF scan_id \in DOMAIN scans THEN scans[scan_id].object_count ELSE 0

\* The step is a frame (WebSocket or REST) that was recorded.
Recorded ==
    /\ last'.op \in {"frame", "rest_frame"}
    /\ FramesOf(spatial_scans', last'.scan_id)
          = FramesOf(spatial_scans, last'.scan_id) + 1

\* C14: every ingested frame leaves its scan record either with all of the
\* frame's semantic observations (object list and objectCount both grown by
\* their number) or with none of them (both unchanged); never with some.
C14_AsStated ==
    [][Recorded =>
         LET added == Len(ObjectsOf(spatial_scans', last'.scan_id))
                         - Len(ObjectsOf(spatial_scans, last'.scan_id))
             counted == CountOf(spatial_scans', last'.scan_id)
                           - CountOf(spatial_scans, last'.scan_id)
             n == Len(last'.gemini_objects)
         IN  \/ added = n /\ counted = n
             \/ added = 0 /\ counted = 0]_vars

-----------------------------------------------------------------------------
(* SpecTasks: the coroutines of two probes and the REST ingest, all        *)
(* writing scan s1, in every order the event loop can run them.  Probe p1  *)
(* sends frames with two objects (two description calls in flight), probe  *)
(* p2 frames with one; each call returns or throws at any time.            *)

Bottle2 == Detection("bottle", 2, <<0, 0, 100, 100>>, Pos(0, 0, 6), "f")

TaskOutcomes(p) ==
    IF p = "p1"
    THEN {Outcome(FALSE, <<Bottle1, Bottle2>>, "f", <<TRUE, TRUE>>,
                  <<Desc("flask", "steel"), Desc("mug", "blue")>>, FALSE, {})}
    ELSE {Outcome(FALSE, <<Chair0>>, "f", <<TRUE>>, <<Desc("sofa", "red")>>,
                  FALSE, {})}

TaskRestOutcome ==
    RestOutcome(FALSE, <<BottleA>>, FALSE,
                <<RestObject("flask", Pos(0, 0, 6), "steel")>>, {})

InitTasks == InitState(2, 2, 2, TRUE, TRUE, NoFiles, TRUE)

NextTasks ==
    \/ \E p \in Probes :
           \E out \in OutcomesAt(p, TaskOutcomes(p), "f") :
               TaskReceive(p, Message("s1", 0, TRUE, FALSE), out)
    \/ \E p \in Probes, j \in 1..2, ok \in BOOLEAN : DescribeReturns(p, j, ok)
    \/ \E p \in Probes : TaskResume(p)
    \/ \E p \in Probes : TaskSent(p)
    \/ RestFrame(TRUE, "s1", 0, TaskRestOutcome)

SpecTasks == InitTasks /\ [][NextTasks]_vars

\* C15: the record operations of two writers of one scan never interleave:
\* no coroutine is ever suspended inside its record operation, and every
\* step that counts a frame on a scan also appends that frame's whole
\* contribution (its detections, its objects, the objectCount bump).
C15_RecordAtomic ==
    [][/\ \A p \in Probes : task'[p].stage # "recording"
       /\ \A s \in ScanIds :
             FramesOf(spatial_scans', s) # FramesOf(spatial_scans, s) =>
                /\ FramesOf(spatial_scans', s) = FramesOf(spatial_scans, s) + 1
                /\ last'.scan_id = s
                /\ Len(HistoryOf(spatial_scans', s))
                      = Len(HistoryOf(spatial_scans, s)) + Len(last'.detections)
                /\ Len(ObjectsOf(spatial_scans', s))
                      = Len(ObjectsOf(spatial_scans, s))
                           + Len(last'.gemini_objects)
                /\ CountOf(spatial_scans', s)
                      = CountOf(spatial_scans, s) + Len(last'.gemini_objects)
       /\ \A s \in DOMAIN spatial_scans' :
             spatial_scans'[s].object_count = Len(spatial_scans'[s].objects)]_vars

\* p1 records a described frame on s1 while p2 is suspended in the middle
\* of its own frame for s1, after another writer's frame was recorded
C15_Witness ==
    /\ task["p2"].stage = "describing"
    /\ task["p2"].scan_id = "s1"
    /\ last.op = "frame" /\ last.probe = "p1" /\ last.status = "recorded"
    /\ last.scan_id = "s1"
    /\ last.gemini_objects # <<>>
    /\ spatial_scans["s1"].frames >= 2

\* C16: once a frame's record operation has run, no description call of
\* that frame is still in flight.
C16_AsStated ==
    \A p \in Probes :
        task[p].stage = "sending" =>
            \A j \in DOMAIN task[p].calls : task[p].calls[j] # "running"

-----------------------------------------------------------------------------
(* Malformed frames and failures, checked on SpecSampling *)

\* C17: a frame whose image payload does not decode is answered with an
\* error and changes no state: no scan record, not the index, and not the
\* probe's frame counter.
C17_AsStated ==
    [][(last'.op = "frame" /\ last'.status = "error") =>
          UNCHANGED <<spatial_scans, memory, frame_count>>]_vars

\* C18: whatever fails while a probe's frame is processed, the probe's
\* ingest loop keeps running.
C18_AsStated ==
    last.op = "frame" => probe_open[last.probe]

-----------------------------------------------------------------------------
(* Counters and status of a scan record, checked on SpecIngest *)

IsPrefix(a, b) == Len(a) <= Len(b) /\ SubSeq(b, 1, Len(a)) = a

\* C19: in every step other than a reset, every scan record stays, its
\* frameCount and objectCount do not decrease, and its detection history
\* and object list keep every element they had, in place.
C19_MonotoneCounters ==
    [][last'.op # "reset" =>
          \A s \in DOMAIN spatial_scans :
             /\ s \in DOMAIN spatial_scans'
             /\ spatial_scans'[s].frames >= spatial_scans[s].frames
             /\ spatial_scans'[s].object_count >= spatial_scans[s].object_count
             /\ IsPrefix(spatial_scans[s].detections,
                         spatial_scans'[s].detections)
             /\ IsPrefix(spatial_scans[s].objects,
                         spatial_scans'[s].objects)]_vars

\* a scan written by the probe and by the REST ingest, stopped in between
C19_Witness ==
    /\ "s1" \in DOMAIN spatial_scans
    /\ last.op = "rest_frame" /\ last.status = "ok"
    /\ spatial_scans["s1"].source = "p1"
    /\ spatial_scans["s1"].status = "completed"
    /\ spatial_scans["s1"].frames >= 3
    /\ Len(spatial_scans["s1"].detections) >= 2
    /\ Len(spatial_scans["s1"].objects) >= 3

\* C20: a record is created by an ingested frame with status scanning; it
\* becomes completed only in a stop signal naming it and never goes back;
\* a stop signal creates no record; no record disappears except in a reset.
C20_StatusLifecycle ==
    [][/\ \A s \in DOMAIN spatial_scans' \ DOMAIN spatial_scans :
             /\ spatial_scans'[s].status = "scanning"
             /\ last'.op \in {"frame", "rest_frame"}
       /\ \A s \in DOMAIN spatial_scans :
             /\ s \in DOMAIN spatial_scans' \/ last'.op = "reset"
             /\ s \in DOMAIN spatial_scans' =>
                   /\ spatial_scans'[s].status \in {"scanning", "completed"}
                   /\ spatial_scans[s].status = "completed" =>
                         spatial_scans'[s].status = "completed"
                   /\ (/\ spatial_scans[s].status = "scanning"
                       /\ spatial_scans'[s].status = "completed") =>
                         last'.op = "stop_scan" /\ last'.scan_id = s
       /\ last'.op = "stop_scan" =>
             DOMAIN spatial_scans' = DOMAIN spatial_scans]_vars

\* a frame ingested into a scan that a stop signal had completed, while a
\* stop signal for s2 has left the store without a record for s2
C20_Witness ==
    /\ "s1" \in DOMAIN spatial_scans
    /\ "s2" \notin DOMAIN spatial_scans
    /\ spatial_scans["s1"].status = "completed"
    /\ last.op \in {"frame", "rest_frame"}
    /\ last.scan_id = "s1"
    /\ last.detections # <<>>
    /\ spatial_scans["s1"].updated_at = last.timestamp

-----------------------------------------------------------------------------
(* Lazy creation of scan records, checked on SpecIngest *)

Sources == Probes \cup {"rest"}

\* The writer of the frame the step recorded.
SourceOf(answer) == IF answer.op = "frame" THEN answer.probe ELSE "rest"

\* C21: _ensure_scan on an unseen scan id adds one record with frames 0,
\* object_count 0, empty histories, an empty label cache and status scanning,
\* and leaves the other records alone; on an existing scan id it returns the
\* store as it is, whatever source is passed.  Every record sits under its
\* own scan_id, and a frame recorded into an existing scan leaves its source.
C21_LazyCreation ==
    [][/\ \A s \in ScanIds, src \in Sources :
             LET before == spatial_scans'
                 after == _ensure_scan(before, s, src)
             IN  IF s \in DOMAIN before
                 THEN after = before
                 ELSE /\ DOMAIN after = DOMAIN before \cup {s}
                      /\ \A o \in DOMAIN before : after[o] = before[o]
                      /\ after[s].scan_id = s
                      /\ after[s].source = src
                      /\ after[s].status = "scanning"
                      /\ after[s].frames = 0
                      /\ after[s].object_count = 0
                      /\ after[s].objects = <<>>
                      /\ after[s].detections = <<>>
                      /\ after[s].gemini_label_cache = EmptyDict
       /\ \A s \in DOMAIN spatial_scans' : spatial_scans'[s].scan_id = s
       /\ Recorded =>
             LET s == last'.scan_id
             IN  spatial_scans'[s].source =
                     IF s \in DOMAIN spatial_scans THEN spatial_scans[s].source
                     ELSE SourceOf(last')]_vars

\* the REST ingest records a frame into the scan that probe p1 created
C21_Witness ==
    /\ "s1" \in DOMAIN spatial_scans
    /\ last.op = "rest_frame" /\ last.scan_id = "s1"
    /\ spatial_scans["s1"].source = "p1"
    /\ spatial_scans["s1"].frames >= 2
    /\ _ensure_scan(spatial_scans, "s1", "rest") = spatial_scans

-----------------------------------------------------------------------------
(* SpecKeys: the object key.  The first frame of probe p1 carries two      *)
(* detections, both described, drawn from boxes whose centres lie on both  *)
(* sides of a 96 px cell boundary (x centre 95 or 96, y centre 50 or 150), *)
(* depths on both sides of a z-bucket boundary, tracked and untracked;     *)
(* the frames after it carry none.                                         *)

KeyDetections ==
    {Detection(label, tid, <<0, 0, x2, y2>>, Pos(0, 0, z), "f") :
        label \in {"bottle", "cup"}, tid \in {-1, 1},
        x2 \in {190, 191, 192}, y2 \in {100, 300}, z \in {5, 6, 7}}

KeyOutcomes ==
    {Outcome(FALSE, <<d1, d2>>, "f", <<TRUE, TRUE>>,
             <<Desc("flask", "steel"), Desc("mug", "blue")>>, FALSE, {}) :
        d1 \in KeyDetections, d2 \in KeyDetections}

\* The scene is seen once, on the connection's first frame.
KeyOutcomesAt(p) ==
    IF frame_count[p] = 0 THEN KeyOutcomes
    ELSE {Outcome(FALSE, <<>>, "f", <<>>, <<>>, FALSE, {})}

InitKeys == InitState(2, 2, 2, TRUE, TRUE, NoFiles, TRUE)

NextKeys ==
    \E out \in KeyOutcomesAt("p1") :
        ProbeFrame("p1", Message("s1", 0, TRUE, FALSE), out)

SpecKeys == InitKeys /\ [][NextKeys]_vars

\* The cell of a centre coordinate (a + b) / 2 for bucket size B.
CellOf(a, b) == (a + b) \div (2 * FALLBACK_KEY_BUCKET_PX)

\* k is the key the derivation rule gives detection d: label and tracker id
\* when tracked; label, the cell of the box centre and an integer nearest to
\* 2z (z counted in quarter metres) when not.
KeyAsDerived(k, d) ==
    IF d.track_id > -1 THEN k = <<d.label, d.track_id>>
    ELSE /\ Len(k) = 5
         /\ k[1] = d.label /\ k[2] = "cell"
         /\ k[3] = CellOf(d.bbox[1], d.bbox[3])
         /\ k[4] = CellOf(d.bbox[2], d.bbox[4])
         /\ 2 * k[5] - d.position_3d.z \in -1..1

Untracked(i) == last.detections[i].track_id = -1

\* C22: the key of every detection of a frame is the one the derivation rule
\* gives its fields, and the label cache is keyed by exactly these keys.
\* Tracked detections with one label and tracker id share a key whatever
\* their boxes and positions; untracked detections with one label, one cell
\* and one z-bucket share a key; untracked detections whose centres lie one
\* pixel apart on the two sides of a cell boundary have different keys.
C22_ObjectKey ==
    FrameAck =>
        LET dets == last.detections
            n == Len(dets)
        IN  /\ \A i \in 1..n : KeyAsDerived(KeyAt(i), dets[i])
            /\ n > 0 => DOMAIN CacheAfter = {KeyAt(i) : i \in 1..n}
            /\ \A i, j \in 1..n :
                  /\ (/\ ~Untracked(i) /\ ~Untracked(j)
                      /\ dets[i].label = dets[j].label
                      /\ dets[i].track_id = dets[j].track_id)
                        => KeyAt(i) = KeyAt(j)
                  /\ (/\ Untracked(i) /\ Untracked(j)
                      /\ dets[i].label = dets[j].label
                      /\ CellOf(dets[i].bbox[1], dets[i].bbox[3])
                            = CellOf(dets[j].bbox[1], dets[j].bbox[3])
                      /\ CellOf(dets[i].bbox[2], dets[i].bbox[4])
                            = CellOf(dets[j].bbox[2], dets[j].bbox[4])
                      /\ KeyAt(i)[5] = KeyAt(j)[5])
                        => KeyAt(i) = KeyAt(j)
                  /\ (/\ Untracked(i) /\ Untracked(j)
                      /\ TruncHalf(dets[j].bbox[1] + dets[j].bbox[3])
                            = TruncHalf(dets[i].bbox[1] + dets[i].bbox[3]) + 1
                      /\ CellOf(dets[i].bbox[1], dets[i].bbox[3])
                            # CellOf(dets[j].bbox[1], dets[j].bbox[3]))
                        => KeyAt(i) # KeyAt(j)

\* two untracked bottles at one depth, centres at x = 95 and x = 96: two
\* cache entries
C22_Witness ==
    /\ FrameAck /\ Len(last.detections) = 2
    /\ Untracked(1) /\ Untracked(2)
    /\ last.detections[1].label = last.detections[2].label
    /\ last.detections[1].bbox = <<0, 0, 191, 100>>
    /\ last.detections[2].bbox = <<0, 0, 192, 100>>
    /\ last.detections[1].position_3d = last.detections[2].position_3d
    /\ Cardinality(DOMAIN CacheAfter) = 2

-----------------------------------------------------------------------------
(* SpecDescribe: the description calls of probe p1, under every pair of    *)
(* strides up to MaxStride, a cap of 1 or 2 calls, with and without a      *)
(* describer client.  Frames carry up to three detections (more than the   *)
(* cap), each crop there or None; each call returns or throws.             *)

DescribeDetections ==
    {<<>>, <<Chair0>>, <<Bottle1, Bottle2>>, <<Bottle1, Bottle2, Chair0>>}

DescribeOutcomes ==
    UNION {FrameOutcomes(dets, "f", {Desc("flask", "steel")}) :
              dets \in DescribeDetections}

InitDescribe ==
    \E yolo \in 1..MaxStride, gem \in 1..MaxStride, crops \in {1, 2},
       env_key \in BOOLEAN :
        InitState(yolo, gem, crops, TRUE, TRUE, NoFiles, env_key)

NextDescribe ==
    \/ \E out \in OutcomesAt("p1", DescribeOutcomes, "f") :
           TaskReceive("p1", Message("s1", 0, TRUE, FALSE), out)
    \/ \E j \in 1..2, ok \in BOOLEAN : DescribeReturns("p1", j, ok)
    \/ TaskResume("p1")
    \/ TaskSent("p1")

SpecDescribe == InitDescribe /\ [][NextDescribe]_vars

\* The semantic object was built from this detection.
BuiltFrom(obj, det) ==
    /\ obj.bbox = det.bbox /\ obj.track_id = det.track_id
    /\ obj.yolo_label = det.label /\ obj.position = det.position_3d

Described(detections) ==
    {i \in 1..Len(detections) : detections[i].gemini_name # Absent}

\* C23: the description calls of a probe's frame number at most the cap and
\* at most the frame's detections; there are none unless the detector ran on
\* that frame, returned a detection, and n mod descriptionStride = 1.  The
\* semantic objects of a frame are built from detections of that same frame,
\* one per call at most, and no more detections than the cap carry a
\* description; objectCount grows by at most the cap in any step.
C23_DescribeGate ==
    [][/\ \A p \in Probes :
             LET t == task'[p]
                 calls == Len(t.calls)
             IN  /\ calls <= MAX_GEMINI_CROPS
                 /\ calls <= Len(t.detections)
                 /\ calls > 0 =>
                       /\ t.detections # <<>>
                       /\ t.frame_number % YOLO_FRAME_STRIDE = 1
                       /\ t.frame_number % GEMINI_FRAME_STRIDE = 1
                 /\ Len(t.gemini_objects) <= calls
                 /\ Cardinality(Described(t.detections)) <= MAX_GEMINI_CROPS
                 /\ \A j \in 1..Len(t.gemini_objects) :
                       \E i \in 1..Len(t.detections) :
                           BuiltFrom(t.gemini_objects[j], t.detections[i])
       /\ \A s \in ScanIds :
             CountOf(spatial_scans', s) - CountOf(spatial_scans, s)
                 \in 0..MAX_GEMINI_CROPS]_vars

\* cap 1: frame 1 saw two bottles and described the first; frame 3 sees a
\* chair and describes the chair, while the second bottle stays undescribed
C23_Witness ==
    /\ MAX_GEMINI_CROPS = 1
    /\ task["p1"].stage = "sending" /\ task["p1"].frame_number = 3
    /\ Len(task["p1"].detections) = 1
    /\ task["p1"].detections[1].label = "chair"
    /\ Len(task["p1"].gemini_objects) = 1
    /\ spatial_scans["s1"].object_count = 2
    /\ Len(spatial_scans["s1"].detections) = 3
    /\ spatial_scans["s1"].detections[2].gemini_name = ""

-----------------------------------------------------------------------------
(* SpecFrames: probe p1 (with a describer) feeds scans s1 and s2 under     *)
(* every detection stride up to MaxStride and description stride 2 or 3,   *)
(* so that frames are detected and described, detected only, or skipped.   *)
(* Detected frames are stored under path "f", skipped ones under "g";      *)
(* timestamps lie on both sides of the label TTL.                          *)

FrameTimes == {0, GEMINI_LABEL_TTL_SEC + 1}

FramesOutcomes ==
    {Outcome(FALSE, <<BottleA>>, "f", <<TRUE>>, <<Desc("mug", "blue")>>,
             FALSE, {}),
     Outcome(FALSE, <<Bottle1, BottleA>>, "f", <<TRUE, TRUE>>,
             <<Desc("flask", "steel"), Desc("mug", "blue")>>, FALSE, {})}

InitFrames ==
    \E yolo \in 1..MaxStride, gem \in {2, 3} :
        InitState(yolo, gem, 2, TRUE, TRUE, NoFiles, TRUE)

NextFrames ==
    \E scan_id \in ScanIds, t \in FrameTimes,
       out \in OutcomesAt("p1", FramesOutcomes, "g") :
        ProbeFrame("p1", Message(scan_id, t, TRUE, FALSE), out)

SpecFrames == InitFrames /\ [][NextFrames]_vars

\* The step is an acknowledged probe frame on which detection was skipped.
SkippedFrame == last'.op = "frame" /\ last'.status = "ack" /\ ~last'.ran_yolo

\* C24: a frame on which the sampling skips detection still gets a frame
\* path, which becomes the scan's last_frame_path, and counts as one frame
\* of the scan; the scan's detection history, object list, objectCount and
\* label cache stay as they were, and the snapshot sent has no detections.
C24_SkippedFrame ==
    [][SkippedFrame =>
          LET s == last'.scan_id
          IN  /\ s \in DOMAIN spatial_scans'
              /\ spatial_scans'[s].last_frame_path = "g"
              /\ spatial_scans'[s].frames = FramesOf(spatial_scans, s) + 1
              /\ spatial_scans'[s].detections = HistoryOf(spatial_scans, s)
              /\ spatial_scans'[s].objects = ObjectsOf(spatial_scans, s)
              /\ spatial_scans'[s].object_count = CountOf(spatial_scans, s)
              /\ spatial_scans'[s].gemini_label_cache
                    = CacheOf(spatial_scans, s)
              /\ last'.detections = <<>>
              /\ last'.objects = <<>>
              /\ last'.gemini_objects = <<>>]_vars

\* frame 2 is skipped after frame 1 was detected and described into s1
C24_Witness ==
    /\ last.op = "frame" /\ last.status = "ack" /\ ~last.ran_yolo
    /\ last.frame_number = 2 /\ last.scan_id = "s1"
    /\ spatial_scans["s1"].frames = 2
    /\ spatial_scans["s1"].last_frame_path = "g"
    /\ Len(spatial_scans["s1"].detections) = 2
    /\ spatial_scans["s1"].object_count = 2
    /\ Cardinality(DOMAIN spatial_scans["s1"].gemini_label_cache) = 2

-----------------------------------------------------------------------------
(* The label cache between frames, checked on SpecFrames *)

\* The keys of the detections of the frame the step processed.
FrameKeys == {_object_key_from_detection(last'.detections[i]) :
                 i \in 1..Len(last'.detections)}

\* C25: a processed frame leaves the label cache of every other scan as it
\* was, and in its own scan's cache it leaves every entry whose key is not
\* the key of one of the frame's detections: none added, none removed, none
\* rewritten, whatever its age.  An entry that disappears is under the key
\* of one of the frame's detections and was older than the TTL.
C25_LazyEviction ==
    [][last'.op = "frame" =>
          /\ \A s \in DOMAIN spatial_scans :
                /\ s \in DOMAIN spatial_scans'
                /\ s # last'.scan_id =>
                      spatial_scans'[s].gemini_label_cache
                          = spatial_scans[s].gemini_label_cache
          /\ last'.scan_id \in DOMAIN spatial_scans' =>
                LET before == CacheOf(spatial_scans, last'.scan_id)
                    after == CacheOf(spatial_scans', last'.scan_id)
                IN  /\ \A k \in (DOMAIN before \cup DOMAIN after) \ FrameKeys :
                          /\ k \in DOMAIN before /\ k \in DOMAIN after
                          /\ after[k] = before[k]
                    /\ \A k \in DOMAIN before \ DOMAIN after :
                          /\ k \in FrameKeys
                          /\ last'.timestamp - before[k].updated_at
                                > GEMINI_LABEL_TTL_SEC]_vars

\* frame 3 detects the untracked bottle alone, undescribed, 21 s after
\* frame 1 named both bottles: its entry goes, the tracked bottle's entry,
\* as old, stays
C25_Witness ==
    /\ FrameAck /\ last.ran_yolo /\ last.frame_number = 3
    /\ last.timestamp = GEMINI_LABEL_TTL_SEC + 1
    /\ Len(last.detections) = 1
    /\ Cardinality(DOMAIN last.cache_before) = 2
    /\ DOMAIN CacheAfter = {_object_key_from_detection(Bottle1)}
    /\ CacheAfter[_object_key_from_detection(Bottle1)].updated_at = 0

-----------------------------------------------------------------------------
(* objectCount against the object list, checked on SpecIngest *)

\* C26: in every reachable state every scan record's objectCount is the
\* length of its object list.
C26_AsStated ==
    \A s \in DOMAIN spatial_scans :
        spatial_scans[s].object_count = Len(spatial_scans[s].objects)

-----------------------------------------------------------------------------
(* How often the detector runs, checked on SpecFrames (every image         *)
(* decodes, no collaborator throws)                                        *)

\* C27: for every detection stride S >= 1 the detector runs on the first
\* frame of a probe connection and on at least one of every S consecutive
\* frames of it.  Stated on what one step shows: the first frame is
\* detected; with S = 1 every frame is; with S = 2 no two frames in a row
\* are both skipped.
C27_AsStated ==
    [][(last'.op = "frame" /\ last'.status = "ack") =>
          /\ last'.frame_number = 1 => last'.ran_yolo
          /\ YOLO_FRAME_STRIDE = 1 => last'.ran_yolo
          /\ (/\ YOLO_FRAME_STRIDE = 2
              /\ last.op = "frame" /\ last.status = "ack"
              /\ last.probe = last'.probe
              /\ last'.frame_number = last.frame_number + 1)
                => (last.ran_yolo \/ last'.ran_yolo)]_vars

-----------------------------------------------------------------------------
(* Completed scans, checked on SpecIngest *)

\* C28: once a scan record's status is completed, a frame ingested under
\* its scan id (by a probe or by the REST ingest) leaves its frameCount,
\* detection history, object list, objectCount and label cache unchanged.
C28_AsStated ==
    [][\A s \in DOMAIN spatial_scans :
          (/\ spatial_scans[s].status = "completed"
           /\ last'.op \in {"frame", "rest_frame"}
           /\ last'.scan_id = s) =>
             /\ s \in DOMAIN spatial_scans'
             /\ spatial_scans'[s].frames = spatial_scans[s].frames
             /\ spatial_scans'[s].detections = spatial_scans[s].detections
             /\ spatial_scans'[s].objects = spatial_scans[s].objects
             /\ spatial_scans'[s].object_count = spatial_scans[s].object_count
             /\ spatial_scans'[s].gemini_label_cache
                   = spatial_scans[s].gemini_label_cache]_vars

====
